---- MODULE Spec2Model ----
(***************************************************************************)
(* Train/Test splitting of ROOT ntuples (split_train_test.py) and the      *)
(* propagation of an existing split to other ntuples of the same events    *)
(* (apply_pre_splitting.py).                                               *)
(*                                                                         *)
(* Three families of specifications share this module:                     *)
(*   SpecCount  the event-count arithmetic of split_train_test.script_main *)
(*   SpecGen    one or two complete runs of split_train_test.script_main   *)
(*   Spec       one run of apply_pre_splitting.script_main                 *)
(* Logging at debug level is not modelled; info, warning and error         *)
(* messages of apply_pre_splitting are.                                    *)
(***************************************************************************)
EXTENDS Integers, Sequences, FiniteSets, TLC

(***************************************************************************)
(* Bounds of the model.                                                    *)
(***************************************************************************)
\* SpecCount: largest record count and largest factor tried.
MaxEvents == 23
MaxCountFactor == 15
\* SpecGen: largest record count of a file, files per directory, factor.
MaxRecords == 3
MaxGenFiles == 2
MaxFactor == 3
\* SpecGenTwice: files per directory.
MaxTwiceFiles == 2
\* Spec: entries of the two reference trees together, entries of the input tree.
MaxIndex == 3
MaxTree == 2
\* Spec (directories of several entries): entries of the input directory.
MaxFiles == 2
\* SpecDiff: largest branch count and largest entry count of a tree.
MaxBranches == 2
MaxEntries == 2
\* SpecSkim: largest record count of a file.
MaxSkimRecords == 3

(***************************************************************************)
(* IEEE-754 binary64 arithmetic, as far as split_train_test.py uses it:    *)
(* float(a)/float(b) of two positive integers, int * float, int(float).    *)
(* A positive double is [z |-> FALSE, d |-> limbs, e |-> exponent]: its    *)
(* 53-bit significand is an implicit leading 1 followed by NLimbs limbs of *)
(* LimbBits bits each (most significant first), and its value is           *)
(* (1.d1 d2 d3 d4) * 2^e.  z marks the value 0.0.  Every operation rounds  *)
(* to nearest, ties to even, as the hardware does.                         *)
(***************************************************************************)
LimbBits == 13
NLimbs == 4
LimbBase == 2^LimbBits

RECURSIVE BitLen(_)
BitLen(n) == IF n = 0 THEN 0 ELSE 1 + BitLen(n \div 2)

ShiftBy(d, s) ==
  IF s >= 0 THEN d * 2^s ELSE IF -s >= LimbBits THEN 0 ELSE d \div 2^(-s)

RECURSIVE IncLimbs(_, _)
IncLimbs(d, i) ==
  IF i = 0 THEN d
  ELSE IF d[i] + 1 < LimbBase THEN [d EXCEPT ![i] = d[i] + 1]
  ELSE IncLimbs([d EXCEPT ![i] = 0], i - 1)

\* The significand d, rounded up by one unit in the last place when `up`.
RoundLimbs(d, up, e) ==
  IF ~up THEN [z |-> FALSE, d |-> d, e |-> e]
  ELSE IF \A i \in 1..NLimbs : d[i] = LimbBase - 1
       THEN [z |-> FALSE, d |-> [i \in 1..NLimbs |-> 0], e |-> e + 1]
       ELSE [z |-> FALSE, d |-> IncLimbs(d, NLimbs), e |-> e]

\* k more limbs of the quotient of r/b (r < b), and the last remainder.
RECURSIVE DivLimbs(_, _, _, _)
DivLimbs(r, b, k, q) ==
  IF k = 0 THEN [q |-> q, r |-> r]
  ELSE DivLimbs((r * LimbBase) % b, b, k - 1, Append(q, (r * LimbBase) \div b))

\* float(a) / float(b) for integers a, b >= 1.
FloatDiv(a, b) ==
  LET la == BitLen(a)
      lb == BitLen(b)
      a1 == a * 2^(IF lb > la THEN lb - la ELSE 0)
      b1 == b * 2^(IF la > lb THEN la - lb ELSE 0)
      lo == a1 < b1
      a2 == IF lo THEN 2 * a1 ELSE a1
      e0 == (la - lb) - (IF lo THEN 1 ELSE 0)
      qr == DivLimbs(a2 - b1, b1, NLimbs, <<>>)
      up == 2 * qr.r > b1 \/ (2 * qr.r = b1 /\ qr.q[NLimbs] % 2 = 1)
  IN  RoundLimbs(qr.q, up, e0)

\* The exact product of the significand 1.d with n: limb 1 of the result
\* is the (unnormalised) leading part.
RECURSIVE MulLimbs(_, _, _, _)
MulLimbs(d, n, i, c) ==
  IF i = 0 THEN <<n + c>> \o d
  ELSE MulLimbs([d EXCEPT ![i] = (d[i] * n + c) % LimbBase], n, i - 1,
                (d[i] * n + c) \div LimbBase)

\* n * f for an integer 0 <= n < LimbBase and a double f.
FloatMulInt(n, f) ==
  LET x    == MulLimbs(f.d, n, NLimbs, 0)
      k    == BitLen(x[1]) - 1
      sh   == [i \in 1..NLimbs |->
                 (x[i] % 2^k) * 2^(LimbBits - k) + x[i + 1] \div 2^k]
      lost == x[NLimbs + 1] % 2^k
      up   == k > 0 /\ (2 * lost > 2^k \/ (2 * lost = 2^k /\ sh[NLimbs] % 2 = 1))
  IN  IF n = 0 \/ f.z THEN [z |-> TRUE, d |-> [i \in 1..NLimbs |-> 0], e |-> 0]
      ELSE RoundLimbs(sh, up, f.e + k)

\* int(f): truncation towards zero of a double f >= 0.
FloatToInt(f) ==
  LET top == NLimbs * LimbBits
      Part(i) == ShiftBy(f.d[i], LimbBits * (NLimbs - i) + f.e - top)
      RECURSIVE Sum(_)
      Sum(i) == IF i = 0 THEN 0 ELSE Part(i) + Sum(i - 1)
  IN  IF f.z \/ f.e < 0 THEN 0 ELSE 2^f.e + Sum(NLimbs)

\* array('f', [f]): the double f >= 1 rounded to single precision, to
\* nearest, ties to even.  A single is [m |-> significand, e |-> exponent]
\* with 2^SingleBits <= m < 2^(SingleBits + 1) and value m * 2^(e - SingleBits).
SingleBits == 23
SingleOf(f) ==
  LET keep   == SingleBits - LimbBits
      cut    == LimbBits - keep
      frac   == f.d[1] * 2^keep + f.d[2] \div 2^cut
      low    == f.d[2] % 2^cut
      half   == 2^(cut - 1)
      sticky == \E i \in 3..NLimbs : f.d[i] # 0
      up     == low > half \/ (low = half /\ (sticky \/ frac % 2 = 1))
      m      == 2^SingleBits + frac + (IF up THEN 1 ELSE 0)
  IN  IF m = 2^(SingleBits + 1)
      THEN [m |-> 2^SingleBits, e |-> f.e + 1]
      ELSE [m |-> m, e |-> f.e]

(***************************************************************************)
(* split_train_test.py                                                     *)
(***************************************************************************)
\* The seed argument: <<>> is None, <<s>> the integer s.
NoSeed == <<>>
Seeds == {NoSeed, <<42>>, <<7>>}
\* What the interpreter seeds the module-level generator with when the
\* script gives no seed: operating-system entropy.
Entropy == {1, 2}

\* A directory entry: "mc" is a regular .root file that is processed,
\* "Data" a regular .root file whose name starts with Data, "other" an
\* entry that is no regular file, has another suffix or is puWeights.root.
GenEntry(kind, n) == [kind |-> kind, entries |-> n]

VARIABLES
  genRuns,           \* the runs to make: arguments and input directory of each
  run,               \* the run being made
  gpc,               \* position in script_main
  rng,               \* state of the random module's generator
  sampled,           \* the values random.sample has returned, by generator state
  train_probability,
  fileNo,            \* index of the directory entry being processed
  orig_events, train_events, test_events,
  train_event_list,
  genEvt,            \* evt of the fill loop
  train_tree, test_tree,
  TrainDir, TestDir, \* output: TrainDir[r][f] is the tree written for entry f in run r
  train_split_weight, test_split_weight,
  splitFactor,       \* the splitFactor branch of train_tree and of test_tree
  SplitFactorDir     \* output: the splitFactor branches written for entry f in run r

VARIABLES
  appDir,            \* apply_pre_splitting: the entries of the input directory
  outDir,            \* the output directory, by file name
  apc,               \* position in script_main
  aFile,             \* index of the directory entry being processed
  eventList,
  Run, LumiSec, Event,   \* the branch buffers shared by the three input trees
  isTrain, isTest,       \* the branch buffers of the output tree
  splitTree,         \* the entries filled into the output tree
  fileNotSplit,
  evt,
  log,               \* the messages logged, in order
  pass,              \* which invocation of the script this is
  firstOut,          \* the output directory as the first invocation left it
  firstLog           \* the messages of the first invocation

VARIABLES
  leftDir, rightDir, \* diff_ntuple_dirs: the entries of the two directories
  show_matches,
  compare_dict,      \* the dictionary, its keys in insertion order
  dpc,               \* position in script_main
  outfile            \* the lines written, in order

VARIABLES
  skimDir,           \* skim_ntuples: the entries of the input directory
  skimCfg,           \* the YAML file
  skimOut,           \* the output directory: skimOut[f] is the file of entry f
  spc,               \* position in script_main
  sFile,             \* index of the directory entry being processed
  filter_event_list,
  sEvt,              \* evt of the fill loop
  outtree

\* orig_events is a local of both scripts.
genOnly == <<genRuns, run, gpc, rng, sampled, train_probability, fileNo,
             train_events, test_events, train_event_list, genEvt,
             train_tree, test_tree, TrainDir, TestDir,
             train_split_weight, test_split_weight, splitFactor, SplitFactorDir>>

appVars == <<appDir, outDir, apc, aFile, eventList, Run, LumiSec, Event,
             isTrain, isTest, splitTree, fileNotSplit, evt, log,
             pass, firstOut, firstLog>>

diffVars == <<leftDir, rightDir, show_matches, compare_dict, dpc, outfile>>

skimVars == <<skimDir, skimCfg, skimOut, spc, sFile, filter_event_list, sEvt, outtree>>

vars == <<genOnly, orig_events, appVars, diffVars, skimVars>>

SeqsUpTo(S, n) == UNION {[1..k -> S] : k \in 0..n}

args == genRuns[run]
NoTree == "none"

\* random.seed(seed) / the generator as the interpreter initialised it.
\* A state is where the generator started and what has been drawn since.
SeedEntropy(seed, e) == [seeded |-> FALSE, from |-> e, drawn |-> <<>>]
SeedState(seed, e) ==
  IF seed = NoSeed THEN [seeded |-> FALSE, from |-> e, drawn |-> <<>>]
  ELSE [seeded |-> TRUE, from |-> seed[1], drawn |-> <<>>]

\* The generator state after random.sample(range(n), k): drawing nothing
\* leaves it alone, anything else advances it deterministically.
RngAfter(state, n, k) ==
  IF k = 0 THEN state ELSE [state EXCEPT !.drawn = Append(@, <<n, k>>)]

\* int(orig_events * train_probability)
TrainCount(n, p, tf, sf) == FloatToInt(FloatMulInt(n, p))

\* The buffers before they are made, the branches before a tree is made.
NoWeight == [m |-> 0, e |-> 0]
NoBranches == [train |-> <<>>, test |-> <<>>]

\* lines 85 and 91: float(train_factor + test_factor)/float(factor) stored
\* in an array('f').
SplitWeight(tf, sf, factor) == SingleOf(FloatDiv(tf + sf, factor))

\* The splitFactor the input tree holds for an entry.
InputSplitFactor(entry) == SingleOf(FloatDiv(entry + 1, 1))

\* One iteration of the fill loop: the splitFactor branches after Fill()
\* has stored the buffer the branch is bound to.
FillInputFactor(entry, list, branches, trainWeight, testWeight) ==
  IF entry \in list
  THEN [branches EXCEPT !.train = Append(@, InputSplitFactor(entry))]
  ELSE [branches EXCEPT !.test = Append(@, InputSplitFactor(entry))]
FillSplitFactor(entry, list, branches, trainWeight, testWeight) ==
  IF entry \in list
  THEN [branches EXCEPT !.train = Append(@, trainWeight)]
  ELSE [branches EXCEPT !.test = Append(@, testWeight)]

\* One iteration of the fill loop: the trees after the entry is sorted.
FillBoth(entry, list, trees) ==
  [train |-> IF entry \in list THEN Append(trees.train, entry) ELSE trees.train,
   test  |-> Append(trees.test, entry)]
FillTrees(entry, list, trees) ==
  IF entry \in list
  THEN [train |-> Append(trees.train, entry), test |-> trees.test]
  ELSE [train |-> trees.train, test |-> Append(trees.test, entry)]

GenInitRest ==
  /\ run = 1
  /\ gpc = "start"
  /\ rng = [seeded |-> FALSE, from |-> 0, drawn |-> <<>>]
  /\ sampled = <<>>
  /\ train_probability = [z |-> TRUE, d |-> [i \in 1..NLimbs |-> 0], e |-> 0]
  /\ fileNo = 0
  /\ orig_events = 0
  /\ train_events = 0
  /\ test_events = 0
  /\ train_event_list = {}
  /\ genEvt = 0
  /\ train_tree = <<>>
  /\ test_tree = <<>>
  /\ TrainDir = [r \in 1..Len(genRuns) |-> [f \in 1..Len(genRuns[r].dir) |-> NoTree]]
  /\ TestDir = [r \in 1..Len(genRuns) |-> [f \in 1..Len(genRuns[r].dir) |-> NoTree]]
  /\ train_split_weight = NoWeight
  /\ test_split_weight = NoWeight
  /\ splitFactor = NoBranches
  /\ SplitFactorDir = [r \in 1..Len(genRuns) |-> [f \in 1..Len(genRuns[r].dir) |-> NoBranches]]

\* The applier before it is started.
AppInitRest ==
  /\ apc = "iter"
  /\ aFile = 0
  /\ eventList = <<>>
  /\ Run = 0
  /\ LumiSec = 0
  /\ Event = 0
  /\ isTrain = 0
  /\ isTest = 0
  /\ splitTree = <<>>
  /\ fileNotSplit = FALSE
  /\ evt = 0
  /\ log = <<>>
  /\ pass = 1
  /\ firstOut = <<>>
  /\ firstLog = <<>>

AppIdle ==
  /\ appDir = <<>>
  /\ outDir = <<>>
  /\ AppInitRest

DiffIdle ==
  /\ leftDir = <<>>
  /\ rightDir = <<>>
  /\ show_matches = FALSE
  /\ compare_dict = <<>>
  /\ dpc = "idle"
  /\ outfile = <<>>

SkimIdle ==
  /\ skimDir = <<>>
  /\ skimCfg = <<>>
  /\ skimOut = <<>>
  /\ spc = "idle"
  /\ sFile = 0
  /\ filter_event_list = {}
  /\ sEvt = 0
  /\ outtree = <<>>

\* lines 37-48: seed the generator, make the output directories, compute
\* the train probability.
StartRun ==
  /\ gpc = "start"
  /\ \E e \in Entropy : rng' = SeedState(args.seed, e)
  /\ train_probability' = FloatDiv(args.train_factor, args.train_factor + args.test_factor)
  /\ fileNo' = 0
  /\ gpc' = "iter"
  /\ UNCHANGED <<genRuns, run, sampled, orig_events, train_events, test_events,
                 train_event_list, genEvt, train_tree, test_tree, TrainDir, TestDir>>
  /\ UNCHANGED <<train_split_weight, test_split_weight, splitFactor, SplitFactorDir>>
  /\ UNCHANGED appVars
  /\ UNCHANGED diffVars
  /\ UNCHANGED skimVars

\* lines 50-63: the next directory entry is skipped.
SkipFile ==
  /\ gpc = "iter"
  /\ fileNo < Len(args.dir)
  /\ args.dir[fileNo + 1].kind # "mc"
  /\ fileNo' = fileNo + 1
  /\ UNCHANGED <<genRuns, run, gpc, rng, sampled, train_probability, orig_events,
                 train_events, test_events, train_event_list, genEvt, train_tree,
                 test_tree, TrainDir, TestDir>>
  /\ UNCHANGED <<train_split_weight, test_split_weight, splitFactor, SplitFactorDir>>
  /\ UNCHANGED appVars
  /\ UNCHANGED diffVars
  /\ UNCHANGED skimVars

\* lines 50-76: the next directory entry is processed: open it and count.
CountEvents ==
  /\ gpc = "iter"
  /\ fileNo < Len(args.dir)
  /\ args.dir[fileNo + 1].kind = "mc"
  /\ fileNo' = fileNo + 1
  /\ orig_events' = args.dir[fileNo + 1].entries
  /\ train_events' = TrainCount(orig_events', train_probability,
                                args.train_factor, args.test_factor)
  /\ test_events' = orig_events' - train_events'
  /\ gpc' = "sample"
  /\ UNCHANGED <<genRuns, run, rng, sampled, train_probability, train_event_list,
                 genEvt, train_tree, test_tree, TrainDir, TestDir>>
  /\ UNCHANGED <<train_split_weight, test_split_weight, splitFactor, SplitFactorDir>>
  /\ UNCHANGED appVars
  /\ UNCHANGED diffVars
  /\ UNCHANGED skimVars

\* lines 78-94: draw the train events, create the two output files and trees.
SampleEvents ==
  /\ gpc = "sample"
  /\ LET key == <<rng, orig_events, train_events>>
     IN  /\ \E s \in SUBSET (0..(orig_events - 1)) :
              /\ Cardinality(s) = train_events
              /\ key \in DOMAIN sampled => s = sampled[key]
              /\ train_event_list' = s
              /\ sampled' = IF key \in DOMAIN sampled THEN sampled
                            ELSE [x \in DOMAIN sampled \cup {key} |->
                                    IF x = key THEN s ELSE sampled[x]]
         /\ rng' = RngAfter(rng, orig_events, train_events)
  /\ train_tree' = <<>>
  /\ test_tree' = <<>>
  /\ TrainDir' = [TrainDir EXCEPT ![run][fileNo] = <<>>]
  /\ TestDir' = [TestDir EXCEPT ![run][fileNo] = <<>>]
  /\ genEvt' = 0
  /\ gpc' = "fill"
  /\ UNCHANGED <<genRuns, run, train_probability, fileNo, orig_events,
                 train_events, test_events>>
  /\ train_split_weight' = SplitWeight(args.train_factor, args.test_factor, args.train_factor)
  /\ test_split_weight' = SplitWeight(args.train_factor, args.test_factor, args.test_factor)
  /\ splitFactor' = NoBranches
  /\ SplitFactorDir' = [SplitFactorDir EXCEPT ![run][fileNo] = NoBranches]
  /\ UNCHANGED appVars
  /\ UNCHANGED diffVars
  /\ UNCHANGED skimVars

\* lines 97-103: one iteration of the loop over the events.
FillEvent ==
  /\ gpc = "fill"
  /\ genEvt < orig_events
  /\ LET t == FillTrees(genEvt, train_event_list,
                        [train |-> train_tree, test |-> test_tree])
     IN  /\ train_tree' = t.train
         /\ test_tree' = t.test
  /\ genEvt' = genEvt + 1
  /\ UNCHANGED <<genRuns, run, gpc, rng, sampled, train_probability, fileNo,
                 orig_events, train_events, test_events, train_event_list,
                 TrainDir, TestDir>>
  /\ splitFactor' = FillSplitFactor(genEvt, train_event_list, splitFactor,
                                    train_split_weight, test_split_weight)
  /\ UNCHANGED <<train_split_weight, test_split_weight, SplitFactorDir>>
  /\ UNCHANGED appVars
  /\ UNCHANGED diffVars
  /\ UNCHANGED skimVars

\* lines 105-115: write the trees, close the files.
CloseFileReseeds ==
  /\ gpc = "fill"
  /\ genEvt = orig_events
  /\ TrainDir' = [TrainDir EXCEPT ![run][fileNo] = train_tree]
  /\ TestDir' = [TestDir EXCEPT ![run][fileNo] = test_tree]
  /\ gpc' = "iter"
  /\ rng' = [rng EXCEPT !.drawn = <<>>]
  /\ UNCHANGED <<genRuns, run, sampled, train_probability, fileNo,
                 orig_events, train_events, test_events, train_event_list,
                 genEvt, train_tree, test_tree>>
  /\ SplitFactorDir' = [SplitFactorDir EXCEPT ![run][fileNo] = splitFactor]
  /\ UNCHANGED <<train_split_weight, test_split_weight, splitFactor>>
  /\ UNCHANGED appVars
  /\ UNCHANGED diffVars
  /\ UNCHANGED skimVars
CloseFile ==
  /\ gpc = "fill"
  /\ genEvt = orig_events
  /\ TrainDir' = [TrainDir EXCEPT ![run][fileNo] = train_tree]
  /\ TestDir' = [TestDir EXCEPT ![run][fileNo] = test_tree]
  /\ gpc' = "iter"
  /\ UNCHANGED <<genRuns, run, rng, sampled, train_probability, fileNo,
                 orig_events, train_events, test_events, train_event_list,
                 genEvt, train_tree, test_tree>>
  /\ SplitFactorDir' = [SplitFactorDir EXCEPT ![run][fileNo] = splitFactor]
  /\ UNCHANGED <<train_split_weight, test_split_weight, splitFactor>>
  /\ UNCHANGED appVars
  /\ UNCHANGED diffVars
  /\ UNCHANGED skimVars

\* line 50, directory exhausted: script_main returns; the next run starts
\* in a new process.
EndRun ==
  /\ gpc = "iter"
  /\ fileNo = Len(args.dir)
  /\ IF run < Len(genRuns)
     THEN run' = run + 1 /\ gpc' = "start"
     ELSE run' = run /\ gpc' = "done"
  /\ UNCHANGED <<genRuns, rng, sampled, train_probability, fileNo, orig_events,
                 train_events, test_events, train_event_list, genEvt,
                 train_tree, test_tree, TrainDir, TestDir>>
  /\ UNCHANGED <<train_split_weight, test_split_weight, splitFactor, SplitFactorDir>>
  /\ UNCHANGED appVars
  /\ UNCHANGED diffVars
  /\ UNCHANGED skimVars

\* SpecCount: one file, the arithmetic of lines 48 and 74-75 only.
InitCount ==
  /\ genRuns \in {<<[seed |-> NoSeed, train_factor |-> tf, test_factor |-> sf,
                     dir |-> <<GenEntry("mc", n)>>]>> :
                   tf \in 1..MaxCountFactor, sf \in 1..MaxCountFactor, n \in 0..MaxEvents}
  /\ GenInitRest
  /\ AppIdle
  /\ DiffIdle
  /\ SkimIdle

NextCount ==
  \/ StartRun
  \/ CountEvents

SpecCount == InitCount /\ [][NextCount]_vars

\* SpecGen: one run over a directory.
GenEntries ==
  {GenEntry("mc", n) : n \in 0..MaxRecords} \cup {GenEntry("Data", 0), GenEntry("other", 0)}

InitGen ==
  /\ genRuns \in {<<[seed |-> s, train_factor |-> tf, test_factor |-> sf, dir |-> d]>> :
                   s \in {NoSeed, <<42>>}, tf \in 1..MaxFactor, sf \in 1..MaxFactor,
                   d \in SeqsUpTo(GenEntries, MaxGenFiles)}
  /\ GenInitRest
  /\ AppIdle
  /\ DiffIdle
  /\ SkimIdle

NextGen ==
  \/ StartRun
  \/ SkipFile
  \/ CountEvents
  \/ SampleEvents
  \/ FillEvent
  \/ CloseFile
  \/ EndRun

SpecGen == InitGen /\ [][NextGen]_vars

\* SpecGenTwice: the script is run twice, each time in a new process.
TwiceCounts == {0, 2}
TwiceFactors == {1, 2}
TwiceDirs ==
  SeqsUpTo({GenEntry("mc", n) : n \in TwiceCounts} \cup {GenEntry("Data", 0)},
           MaxTwiceFiles)

InitGenTwice ==
  /\ genRuns \in {<<[seed |-> s1, train_factor |-> t1, test_factor |-> 1, dir |-> d1],
                     [seed |-> s2, train_factor |-> t2, test_factor |-> 1, dir |-> d2]>> :
                   s1 \in {<<42>>}, s2 \in Seeds, t1 \in TwiceFactors, t2 \in TwiceFactors,
                   d1 \in TwiceDirs, d2 \in TwiceDirs}
  /\ GenInitRest
  /\ AppIdle
  /\ DiffIdle
  /\ SkimIdle

SpecGenTwice == InitGenTwice /\ [][NextGen]_vars

(***************************************************************************)
(* apply_pre_splitting.py                                                  *)
(***************************************************************************)
\* The identity fields of a tree entry.
Key(r, l, e) == [Run |-> r, LumiSec |-> l, Event |-> e]

\* dataclass EventID
EventID(r, l, e, train, test) ==
  [run |-> r, lumi |-> l, evt |-> e, isTrain |-> train, isTest |-> test]

\* A file on disk: whether it exists, whether it has been written and
\* closed, and the entries of its tree.
NoFile == [exists |-> FALSE, closed |-> FALSE, tree |-> <<>>]
TreeFile(t) == [exists |-> TRUE, closed |-> TRUE, tree |-> t]
\* What ROOT.TFile(name, "RECREATE") leaves on disk until the tree is written.
CreatedFile == [exists |-> TRUE, closed |-> FALSE, tree |-> <<>>]

\* An entry of the input directory, with the reference files of the same
\* name: kind "mc" is a regular .root file that is processed, "Data" a
\* regular .root file whose name starts with Data, "other" an entry that
\* is no regular file or has another suffix.
AppEntry(name, kind, tree, train, test) ==
  [name |-> name, kind |-> kind, tree |-> tree, train |-> train, test |-> test]

file == appDir[aFile]
nextFile == appDir[aFile + 1]

Message(level, msg, name) == [level |-> level, msg |-> msg, file |-> name]

\* Assigning a bool to an array('B') element.
ByteOf(b) == IF b THEN 1 ELSE 0

\* lines 108-119: the cache of the pre-split data, Train first.
CacheSplit(trainTree, testTree) ==
  [i \in 1..Len(trainTree) |->
     EventID(trainTree[i].Run, trainTree[i].LumiSec, trainTree[i].Event, TRUE, FALSE)]
  \o [i \in 1..Len(testTree) |->
     EventID(testTree[i].Run, testTree[i].LumiSec, testTree[i].Event, FALSE, TRUE)]

\* lines 97-99: the three branch buffers are new arrays for every file.
NewBuffers == Key(0, 0, 0)

\* The buffers after the last GetEntry of the caching loops; old is what
\* they hold when neither loop reads an entry.
LastRead(trainTree, testTree, old) ==
  IF Len(testTree) > 0 THEN testTree[Len(testTree)]
  ELSE IF Len(trainTree) > 0 THEN trainTree[Len(trainTree)]
  ELSE old

\* lines 150-151: def search
searchAll(r, lumisection, event, event_list) == event_list
searchFirst(r, lumisection, event, event_list) ==
  LET found == SelectSeq(event_list, LAMBDA element : element.evt = event)
  IN IF found = <<>> THEN <<>> ELSE <<found[1]>>
search(r, lumisection, event, event_list) ==
  SelectSeq(event_list, LAMBDA element : element.evt = event)

\* lines 162-163 and 179-181: the flags of the entry that is filled, given
\* the matches and the flags the buffers still hold from the entry before.
FlagsSwapped(matches, stale) ==
  IF Len(matches) = 1
  THEN [isTrain |-> ByteOf(matches[1].isTest), isTest |-> ByteOf(matches[1].isTrain)]
  ELSE [isTrain |-> 0, isTest |-> 0]
FlagsBoth(matches, stale) ==
  IF Len(matches) = 1
  THEN [isTrain |-> 1, isTest |-> 1]
  ELSE [isTrain |-> 0, isTest |-> 0]
FlagsOf(matches, stale) ==
  IF Len(matches) = 1
  THEN [isTrain |-> ByteOf(matches[1].isTrain), isTest |-> ByteOf(matches[1].isTest)]
  ELSE [isTrain |-> 0, isTest |-> 0]

\* splitTree.Fill(): an entry made of the five branch buffers.
OutEntry(k, flags) ==
  [Run |-> k.Run, LumiSec |-> k.LumiSec, Event |-> k.Event,
   isTrain |-> flags.isTrain, isTest |-> flags.isTest]

\* The entry intree.GetEntry(evt) reads, and what the lookup returns for it.
current == file.tree[evt + 1]
matchesNow == search(current.Run, current.LumiSec, current.Event, eventList)

GenIdle ==
  /\ genRuns = <<>>
  /\ GenInitRest

\* lines 56-60: not a regular file, or not a .root file.
SkipEntry ==
  /\ apc = "iter"
  /\ aFile < Len(appDir)
  /\ nextFile.kind = "other"
  /\ aFile' = aFile + 1
  /\ UNCHANGED <<appDir, outDir, apc, eventList, Run, LumiSec, Event, isTrain,
                 isTest, splitTree, fileNotSplit, evt, log>>
  /\ UNCHANGED <<genOnly, orig_events>>
  /\ UNCHANGED <<pass, firstOut, firstLog>>
  /\ UNCHANGED diffVars
  /\ UNCHANGED skimVars

\* lines 56-65: a data sample.
SkipData ==
  /\ apc = "iter"
  /\ aFile < Len(appDir)
  /\ nextFile.kind = "Data"
  /\ aFile' = aFile + 1
  /\ log' = Append(log, Message("info", "skipping data file", nextFile.name))
  /\ UNCHANGED <<appDir, outDir, apc, eventList, Run, LumiSec, Event, isTrain,
                 isTest, splitTree, fileNotSplit, evt>>
  /\ UNCHANGED <<genOnly, orig_events>>
  /\ UNCHANGED <<pass, firstOut, firstLog>>
  /\ UNCHANGED diffVars
  /\ UNCHANGED skimVars

\* lines 56-78: the pre-split train file does not exist.
SkipNoTrainReturns ==
  /\ apc = "iter"
  /\ aFile < Len(appDir)
  /\ nextFile.kind = "mc"
  /\ ~nextFile.train.exists
  /\ aFile' = aFile + 1
  /\ log' = log \o <<Message("info", "processing file", nextFile.name),
                     Message("warning", "no pre-split train file", nextFile.name)>>
  /\ apc' = "done"
  /\ UNCHANGED <<appDir, outDir, eventList, Run, LumiSec, Event, isTrain,
                 isTest, splitTree, fileNotSplit, evt>>
  /\ UNCHANGED <<genOnly, orig_events>>
  /\ UNCHANGED <<pass, firstOut, firstLog>>
  /\ UNCHANGED diffVars
  /\ UNCHANGED skimVars
SkipNoTrain ==
  /\ apc = "iter"
  /\ aFile < Len(appDir)
  /\ nextFile.kind = "mc"
  /\ ~nextFile.train.exists
  /\ aFile' = aFile + 1
  /\ log' = log \o <<Message("info", "processing file", nextFile.name),
                     Message("warning", "no pre-split train file", nextFile.name)>>
  /\ UNCHANGED <<appDir, outDir, apc, eventList, Run, LumiSec, Event, isTrain,
                 isTest, splitTree, fileNotSplit, evt>>
  /\ UNCHANGED <<genOnly, orig_events>>
  /\ UNCHANGED <<pass, firstOut, firstLog>>
  /\ UNCHANGED diffVars
  /\ UNCHANGED skimVars

\* lines 56-81: the pre-split test file does not exist.
SkipNoTestSilent ==
  /\ apc = "iter"
  /\ aFile < Len(appDir)
  /\ nextFile.kind = "mc"
  /\ nextFile.train.exists
  /\ ~nextFile.test.exists
  /\ aFile' = aFile + 1
  /\ log' = Append(log, Message("info", "processing file", nextFile.name))
  /\ UNCHANGED <<appDir, outDir, apc, eventList, Run, LumiSec, Event, isTrain,
                 isTest, splitTree, fileNotSplit, evt>>
  /\ UNCHANGED <<genOnly, orig_events>>
  /\ UNCHANGED <<pass, firstOut, firstLog>>
  /\ UNCHANGED diffVars
  /\ UNCHANGED skimVars
SkipNoTestCreates ==
  /\ apc = "iter"
  /\ aFile < Len(appDir)
  /\ nextFile.kind = "mc"
  /\ nextFile.train.exists
  /\ ~nextFile.test.exists
  /\ aFile' = aFile + 1
  /\ log' = log \o <<Message("info", "processing file", nextFile.name),
                     Message("warning", "no pre-split test file", nextFile.name)>>
  /\ outDir' = [outDir EXCEPT ![nextFile.name] = CreatedFile]
  /\ UNCHANGED <<appDir, apc, eventList, Run, LumiSec, Event, isTrain,
                 isTest, splitTree, fileNotSplit, evt>>
  /\ UNCHANGED <<genOnly, orig_events>>
  /\ UNCHANGED <<pass, firstOut, firstLog>>
  /\ UNCHANGED diffVars
  /\ UNCHANGED skimVars
SkipNoTest ==
  /\ apc = "iter"
  /\ aFile < Len(appDir)
  /\ nextFile.kind = "mc"
  /\ nextFile.train.exists
  /\ ~nextFile.test.exists
  /\ aFile' = aFile + 1
  /\ log' = log \o <<Message("info", "processing file", nextFile.name),
                     Message("warning", "no pre-split test file", nextFile.name)>>
  /\ UNCHANGED <<appDir, outDir, apc, eventList, Run, LumiSec, Event, isTrain,
                 isTest, splitTree, fileNotSplit, evt>>
  /\ UNCHANGED <<genOnly, orig_events>>
  /\ UNCHANGED <<pass, firstOut, firstLog>>
  /\ UNCHANGED diffVars
  /\ UNCHANGED skimVars

\* lines 56-155: cache the pre-split data, load the input file, create the
\* output file and tree.
LoadFileUpdate ==
  /\ apc = "iter"
  /\ aFile < Len(appDir)
  /\ nextFile.kind = "mc"
  /\ nextFile.train.exists
  /\ nextFile.test.exists
  /\ aFile' = aFile + 1
  /\ log' = Append(log, Message("info", "processing file", nextFile.name))
  /\ eventList' = CacheSplit(nextFile.train.tree, nextFile.test.tree)
  /\ LET last == LastRead(nextFile.train.tree, nextFile.test.tree,
                          NewBuffers)
     IN  /\ Run' = last.Run
         /\ LumiSec' = last.LumiSec
         /\ Event' = last.Event
  /\ orig_events' = Len(nextFile.tree)
  /\ outDir' = [outDir EXCEPT ![nextFile.name] = CreatedFile]
  /\ splitTree' = outDir[nextFile.name].tree
  /\ isTest' = 0
  /\ isTrain' = 0
  /\ fileNotSplit' = FALSE
  /\ evt' = 0
  /\ apc' = IF orig_events' = 0 THEN "write" ELSE "scan"
  /\ UNCHANGED appDir
  /\ UNCHANGED genOnly
  /\ UNCHANGED <<pass, firstOut, firstLog>>
  /\ UNCHANGED diffVars
  /\ UNCHANGED skimVars
LoadFileKeepsIndex ==
  /\ apc = "iter"
  /\ aFile < Len(appDir)
  /\ nextFile.kind = "mc"
  /\ nextFile.train.exists
  /\ nextFile.test.exists
  /\ aFile' = aFile + 1
  /\ log' = Append(log, Message("info", "processing file", nextFile.name))
  /\ eventList' = eventList \o CacheSplit(nextFile.train.tree, nextFile.test.tree)
  /\ LET last == LastRead(nextFile.train.tree, nextFile.test.tree,
                          NewBuffers)
     IN  /\ Run' = last.Run
         /\ LumiSec' = last.LumiSec
         /\ Event' = last.Event
  /\ orig_events' = Len(nextFile.tree)
  /\ outDir' = [outDir EXCEPT ![nextFile.name] = CreatedFile]
  /\ splitTree' = <<>>
  /\ isTest' = 0
  /\ isTrain' = 0
  /\ fileNotSplit' = FALSE
  /\ evt' = 0
  /\ apc' = IF orig_events' = 0 THEN "write" ELSE "scan"
  /\ UNCHANGED appDir
  /\ UNCHANGED genOnly
  /\ UNCHANGED <<pass, firstOut, firstLog>>
  /\ UNCHANGED diffVars
  /\ UNCHANGED skimVars
Collision(list) ==
  \E k \in 1..Len(list), l \in 1..Len(list) : k # l /\ list[k].evt = list[l].evt

LoadFileRaises ==
  /\ apc = "iter"
  /\ aFile < Len(appDir)
  /\ nextFile.kind = "mc"
  /\ nextFile.train.exists
  /\ nextFile.test.exists
  /\ aFile' = aFile + 1
  /\ log' = IF Collision(CacheSplit(nextFile.train.tree, nextFile.test.tree))
             THEN log \o <<Message("info", "processing file", nextFile.name),
                           Message("error", "multiple matches", nextFile.name)>>
             ELSE Append(log, Message("info", "processing file", nextFile.name))
  /\ eventList' = CacheSplit(nextFile.train.tree, nextFile.test.tree)
  /\ LET last == LastRead(nextFile.train.tree, nextFile.test.tree,
                          NewBuffers)
     IN  /\ Run' = last.Run
         /\ LumiSec' = last.LumiSec
         /\ Event' = last.Event
  /\ orig_events' = Len(nextFile.tree)
  /\ outDir' = [outDir EXCEPT ![nextFile.name] = CreatedFile]
  /\ splitTree' = <<>>
  /\ isTest' = 0
  /\ isTrain' = 0
  /\ fileNotSplit' = FALSE
  /\ evt' = 0
  /\ apc' = IF Collision(CacheSplit(nextFile.train.tree, nextFile.test.tree))
             THEN "done"
             ELSE IF orig_events' = 0 THEN "write" ELSE "scan"
  /\ UNCHANGED appDir
  /\ UNCHANGED genOnly
  /\ UNCHANGED <<pass, firstOut, firstLog>>
  /\ UNCHANGED diffVars
  /\ UNCHANGED skimVars
LoadFile ==
  /\ apc = "iter"
  /\ aFile < Len(appDir)
  /\ nextFile.kind = "mc"
  /\ nextFile.train.exists
  /\ nextFile.test.exists
  /\ aFile' = aFile + 1
  /\ log' = Append(log, Message("info", "processing file", nextFile.name))
  /\ eventList' = CacheSplit(nextFile.train.tree, nextFile.test.tree)
  /\ LET last == LastRead(nextFile.train.tree, nextFile.test.tree,
                          NewBuffers)
     IN  /\ Run' = last.Run
         /\ LumiSec' = last.LumiSec
         /\ Event' = last.Event
  /\ orig_events' = Len(nextFile.tree)
  /\ outDir' = [outDir EXCEPT ![nextFile.name] = CreatedFile]
  /\ splitTree' = <<>>
  /\ isTest' = 0
  /\ isTrain' = 0
  /\ fileNotSplit' = FALSE
  /\ evt' = 0
  /\ apc' = IF orig_events' = 0 THEN "write" ELSE "scan"
  /\ UNCHANGED appDir
  /\ UNCHANGED genOnly
  /\ UNCHANGED <<pass, firstOut, firstLog>>
  /\ UNCHANGED diffVars
  /\ UNCHANGED skimVars

\* lines 156-169 and 179-182: at most one match, the entry is filled.
ScanFillMatchedOnly ==
  /\ apc = "scan"
  /\ Len(matchesNow) \notin {2} /\ ~(Len(matchesNow) > 2)
  /\ Run' = current.Run
  /\ LumiSec' = current.LumiSec
  /\ Event' = current.Event
  /\ LET flags == FlagsOf(matchesNow, [isTrain |-> isTrain, isTest |-> isTest])
     IN  /\ isTrain' = flags.isTrain
         /\ isTest' = flags.isTest
         /\ splitTree' = IF Len(matchesNow) = 1
                         THEN Append(splitTree, OutEntry(current, flags))
                         ELSE splitTree
  /\ evt' = evt + 1
  /\ apc' = IF evt' = orig_events THEN "write" ELSE "scan"
  /\ UNCHANGED <<appDir, outDir, aFile, eventList, fileNotSplit, log>>
  /\ UNCHANGED <<genOnly, orig_events>>
  /\ UNCHANGED <<pass, firstOut, firstLog>>
  /\ UNCHANGED diffVars
  /\ UNCHANGED skimVars
ScanFill ==
  /\ apc = "scan"
  /\ Len(matchesNow) \notin {2} /\ ~(Len(matchesNow) > 2)
  /\ Run' = current.Run
  /\ LumiSec' = current.LumiSec
  /\ Event' = current.Event
  /\ LET flags == FlagsOf(matchesNow, [isTrain |-> isTrain, isTest |-> isTest])
     IN  /\ isTrain' = flags.isTrain
         /\ isTest' = flags.isTest
         /\ splitTree' = Append(splitTree, OutEntry(current, flags))
  /\ evt' = evt + 1
  /\ apc' = IF evt' = orig_events THEN "write" ELSE "scan"
  /\ UNCHANGED <<appDir, outDir, aFile, eventList, fileNotSplit, log>>
  /\ UNCHANGED <<genOnly, orig_events>>
  /\ UNCHANGED <<pass, firstOut, firstLog>>
  /\ UNCHANGED diffVars
  /\ UNCHANGED skimVars

\* lines 156-173: two matches, the loop is left.
ScanDouble ==
  /\ apc = "scan"
  /\ Len(matchesNow) = 2
  /\ Run' = current.Run
  /\ LumiSec' = current.LumiSec
  /\ Event' = current.Event
  /\ isTrain' = 0
  /\ isTest' = 0
  /\ log' = Append(log, Message("warning", "file was not split", file.name))
  /\ fileNotSplit' = TRUE
  /\ apc' = "write"
  /\ UNCHANGED <<appDir, outDir, aFile, eventList, splitTree, evt>>
  /\ UNCHANGED <<genOnly, orig_events>>
  /\ UNCHANGED <<pass, firstOut, firstLog>>
  /\ UNCHANGED diffVars
  /\ UNCHANGED skimVars

\* lines 156-177: more than two matches, script_main returns.
ScanMultipleBreaks ==
  /\ apc = "scan"
  /\ Len(matchesNow) > 2
  /\ Run' = current.Run
  /\ LumiSec' = current.LumiSec
  /\ Event' = current.Event
  /\ isTrain' = 0
  /\ isTest' = 0
  /\ log' = Append(log, Message("error", "multiple matches", file.name))
  /\ fileNotSplit' = TRUE
  /\ apc' = "write"
  /\ UNCHANGED <<appDir, outDir, aFile, eventList, splitTree, evt>>
  /\ UNCHANGED <<genOnly, orig_events>>
  /\ UNCHANGED <<pass, firstOut, firstLog>>
  /\ UNCHANGED diffVars
  /\ UNCHANGED skimVars
ScanMultiple ==
  /\ apc = "scan"
  /\ Len(matchesNow) > 2
  /\ Run' = current.Run
  /\ LumiSec' = current.LumiSec
  /\ Event' = current.Event
  /\ isTrain' = 0
  /\ isTest' = 0
  /\ log' = Append(log, Message("error", "multiple matches", file.name))
  /\ apc' = "done"
  /\ UNCHANGED <<appDir, outDir, aFile, eventList, splitTree, fileNotSplit, evt>>
  /\ UNCHANGED <<genOnly, orig_events>>
  /\ UNCHANGED <<pass, firstOut, firstLog>>
  /\ UNCHANGED diffVars
  /\ UNCHANGED skimVars

\* lines 185-187: write the tree, close the output file.
WriteFile ==
  /\ apc = "write"
  /\ outDir' = [outDir EXCEPT ![file.name] = TreeFile(splitTree)]
  /\ apc' = "end"
  /\ UNCHANGED <<appDir, aFile, eventList, Run, LumiSec, Event, isTrain, isTest,
                 splitTree, fileNotSplit, evt, log>>
  /\ UNCHANGED <<genOnly, orig_events>>
  /\ UNCHANGED <<pass, firstOut, firstLog>>
  /\ UNCHANGED diffVars
  /\ UNCHANGED skimVars

\* lines 189-194: remove the output of a file that was not split.
EndFile ==
  /\ apc = "end"
  /\ outDir' = IF fileNotSplit THEN [outDir EXCEPT ![file.name] = NoFile] ELSE outDir
  /\ apc' = "iter"
  /\ UNCHANGED <<appDir, aFile, eventList, Run, LumiSec, Event, isTrain, isTest,
                 splitTree, fileNotSplit, evt, log>>
  /\ UNCHANGED <<genOnly, orig_events>>
  /\ UNCHANGED <<pass, firstOut, firstLog>>
  /\ UNCHANGED diffVars
  /\ UNCHANGED skimVars

\* line 56, directory exhausted: script_main returns.
Finish ==
  /\ apc = "iter"
  /\ aFile = Len(appDir)
  /\ apc' = "done"
  /\ UNCHANGED <<appDir, outDir, aFile, eventList, Run, LumiSec, Event, isTrain,
                 isTest, splitTree, fileNotSplit, evt, log>>
  /\ UNCHANGED <<genOnly, orig_events>>
  /\ UNCHANGED <<pass, firstOut, firstLog>>
  /\ UNCHANGED diffVars
  /\ UNCHANGED skimVars

Next ==
  \/ SkipEntry
  \/ SkipData
  \/ SkipNoTrain
  \/ SkipNoTest
  \/ LoadFile
  \/ ScanFill
  \/ ScanDouble
  \/ ScanMultiple
  \/ WriteFile
  \/ EndFile
  \/ Finish

\* The keys of the entries: one base key and one key differing from it in
\* each single field.
Keys == {Key(1, 1, 1), Key(2, 1, 1), Key(1, 2, 1), Key(1, 1, 2)}

\* An output file left by an earlier run.
StaleFile == TreeFile(<<OutEntry(Key(0, 0, 0), [isTrain |-> 0, isTest |-> 0])>>)

FileNames == <<"a.root", "b.root", "c.root", "d.root">>

\* A directory holding one file to split, with any references and tree
\* within the bounds.
References ==
  {p \in SeqsUpTo(Keys, MaxIndex) \X SeqsUpTo(Keys, MaxIndex) :
     Len(p[1]) + Len(p[2]) <= MaxIndex}

InitSingle ==
  /\ \E refs \in References, tree \in SeqsUpTo(Keys, MaxTree) :
       appDir = <<AppEntry(FileNames[1], "mc", tree, TreeFile(refs[1]), TreeFile(refs[2]))>>
  /\ outDir \in [{FileNames[1]} -> {NoFile, StaleFile}]

\* A directory of several entries of every kind.
BatchFiles(name) ==
  {AppEntry(name, "mc", tree, TreeFile(train), TreeFile(test)) :
     tree \in {<<Key(1, 1, 1)>>, <<Key(1, 1, 2), Key(1, 1, 1)>>},
     train \in {<<Key(1, 1, 1)>>, <<Key(1, 1, 1), Key(1, 1, 1)>>},
     test \in {<<>>, <<Key(1, 1, 1)>>}}
  \cup {AppEntry(name, "mc", <<Key(1, 1, 1)>>, NoFile, TreeFile(<<Key(1, 1, 1)>>)),
        AppEntry(name, "mc", <<Key(1, 1, 1)>>, TreeFile(<<Key(1, 1, 1)>>), NoFile),
        AppEntry(name, "mc", <<Key(1, 2, 1)>>, TreeFile(<<>>), TreeFile(<<>>)),
        AppEntry(name, "Data", <<Key(1, 1, 1)>>, NoFile, NoFile),
        AppEntry(name, "other", <<>>, NoFile, NoFile)}

InitBatch ==
  \E n \in 0..MaxFiles :
    /\ appDir \in {d \in [1..n -> UNION {BatchFiles(FileNames[i]) : i \in 1..n}] :
                     \A i \in 1..n : d[i].name = FileNames[i]}
    /\ outDir \in [{FileNames[i] : i \in 1..n} -> {NoFile, StaleFile}]

Init ==
  /\ InitSingle \/ InitBatch
  /\ orig_events = 0
  /\ AppInitRest
  /\ GenIdle
  /\ DiffIdle
  /\ SkimIdle

Spec == Init /\ [][Next]_vars

\* The script is invoked a second time on the same directories: a new
\* process, with the output directory as the first invocation left it.
RunAgain ==
  /\ apc = "done"
  /\ pass = 1
  /\ pass' = 2
  /\ firstOut' = outDir
  /\ firstLog' = log
  /\ apc' = "iter"
  /\ aFile' = 0
  /\ eventList' = <<>>
  /\ Run' = 0
  /\ LumiSec' = 0
  /\ Event' = 0
  /\ isTrain' = 0
  /\ isTest' = 0
  /\ splitTree' = <<>>
  /\ fileNotSplit' = FALSE
  /\ evt' = 0
  /\ log' = <<>>
  /\ orig_events' = 0
  /\ UNCHANGED <<appDir, outDir>>
  /\ UNCHANGED genOnly
  /\ UNCHANGED diffVars
  /\ UNCHANGED skimVars

NextTwice ==
  \/ Next
  \/ RunAgain

SpecTwice == Init /\ [][NextTwice]_vars

\* script_main runs to its end: every step of the loops is taken once it
\* can be.  Checked on the directories of several entries.
InitLive ==
  /\ InitBatch
  /\ orig_events = 0
  /\ AppInitRest
  /\ GenIdle
  /\ DiffIdle
  /\ SkimIdle

SpecLive == InitLive /\ [][Next]_vars /\ WF_vars(Next)

(***************************************************************************)
(* diff_ntuple_dirs.py                                                     *)
(***************************************************************************)

\* What the script reads of a path: whether TFile opens it (not a zombie),
\* whether its key list holds the tree, the tree's GetNbranches and
\* GetEntries, whether the tree has the variable's branch, the mean of the
\* variable's histogram, st_size and the MD5 digest.  Means, sizes and
\* digests are codes: equal codes stand for equal values.
NoPath ==
  [present |-> FALSE, good |-> FALSE, tree |-> FALSE, branches |-> 0, events |-> 0,
   variable |-> FALSE, mean |-> 0, size |-> 0, hash |-> 0]

RootFile(good, tree, branches, events, variable, mean, size, hash) ==
  [present |-> TRUE, good |-> good, tree |-> tree, branches |-> branches,
   events |-> events, variable |-> variable, mean |-> mean, size |-> size,
   hash |-> hash]

\* An entry of path.iterdir(): root is "a regular file with suffix .root".
DirEntry(name, root, path) == [name |-> name, root |-> root, path |-> path]

\* file_dict[dict_key] = {}: the keys "left", "right", "both_exist",
\* "message" and "additional message" are absent.  An absent message is <<>>,
\* a present one <<text>>.  size_compared and hash_compared record that
\* lines 237-240 and lines 245-252 ran for the key.
NewEntry(dict_key) ==
  [key |-> dict_key, left |-> NoPath, right |-> NoPath, both_exist |-> <<>>,
   message |-> <<>>, additional |-> <<>>,
   size_compared |-> FALSE, hash_compared |-> FALSE]

\* The position of dict_key in the dictionary, 0 when it is not a key.
IndexOf(file_dict, dict_key) ==
  IF \E i \in 1..Len(file_dict) : file_dict[i].key = dict_key
  THEN CHOOSE i \in 1..Len(file_dict) : file_dict[i].key = dict_key
  ELSE 0

\* lines 49-51.
PutPath(file_dict, dict_key, compare_key, path) ==
  LET d == IF IndexOf(file_dict, dict_key) = 0
           THEN Append(file_dict, NewEntry(dict_key))
           ELSE file_dict
      i == IndexOf(d, dict_key)
  IN IF compare_key = "left"
     THEN [d EXCEPT ![i].left = path]
     ELSE [d EXCEPT ![i].right = path]

\* lines 35-51, with ignore_suffix = "" (the default): dict_key is file.name.
RECURSIVE fill_compare_file_dict(_, _, _)
fill_compare_file_dict(file_dict, listing, compare_key) ==
  IF listing = <<>> THEN file_dict
  ELSE LET item == Head(listing)
       IN IF ~item.root
          THEN fill_compare_file_dict(file_dict, Tail(listing), compare_key)
          ELSE fill_compare_file_dict(
                 PutPath(file_dict, item.name, compare_key, item.path),
                 Tail(listing), compare_key)

\* lines 59-80 for one key.
ExistsChecked(e) ==
  LET exist_left == e.left.present
      exist_right == e.right.present
  IN IF exist_left /\ ~exist_right
     THEN [e EXCEPT !.both_exist = <<FALSE>>,
                    !.message = <<"This file does not exist on the right">>]
     ELSE IF exist_right /\ ~exist_left
     THEN [e EXCEPT !.both_exist = <<FALSE>>,
                    !.message = <<"This file does not exist on the left">>]
     ELSE IF ~exist_right /\ ~exist_left
     THEN [e EXCEPT !.both_exist = <<FALSE>>,
                    !.message = <<"This file does not exist anywhere... why are we here?">>]
     ELSE [e EXCEPT !.both_exist = <<TRUE>>]

compare_exists(file_dict) ==
  [i \in 1..Len(file_dict) |-> ExistsChecked(file_dict[i])]

\* lines 144-147: the branch counts only leave an "additional message".
BranchesChecked(e) ==
  IF e.left.branches > e.right.branches
  THEN [e EXCEPT !.additional = <<"More branches found on the left file, maybe right file is a skim?">>]
  ELSE IF e.left.branches < e.right.branches
  THEN [e EXCEPT !.additional = <<"More branches found on the right file, maybe left file is a skim?">>]
  ELSE e

\* lines 206-213: the means differ, or the additional message becomes the
\* message.
MeansChecked(e) ==
  IF e.left.mean # e.right.mean
  THEN [e EXCEPT !.message = <<"The mean of the variable does not match between the two files, they are different.">>,
                 !.additional = <<>>]
  ELSE IF e.additional # <<>>
  THEN [e EXCEPT !.message = e.additional, !.additional = <<>>]
  ELSE e

\* lines 96-213 for one key.
RootChecked(e) ==
  LET left_good == e.left.good
      right_good == e.right.good
      tree_exist_left == e.left.tree
      tree_exist_right == e.right.tree
      b == BranchesChecked(e)
      left_events == e.left.events
      right_events == e.right.events
      variable_exist_left == e.left.variable
      variable_exist_right == e.right.variable
  IN IF e.message # <<>> THEN e
     ELSE IF ~left_good /\ ~right_good
     THEN [e EXCEPT !.message = <<"Unable to open any of the two root files.">>]
     ELSE IF left_good /\ ~right_good
     THEN [e EXCEPT !.message = <<"Unable to open the right root file.">>]
     ELSE IF ~left_good /\ right_good
     THEN [e EXCEPT !.message = <<"Unable to open the left root file.">>]
     ELSE IF ~tree_exist_left /\ ~tree_exist_right
     THEN [e EXCEPT !.message = <<"Unable to find the tree for any of the files.">>]
     ELSE IF tree_exist_left /\ ~tree_exist_right
     THEN [e EXCEPT !.message = <<"Unable to find the tree for the right file.">>]
     ELSE IF ~tree_exist_left /\ tree_exist_right
     THEN [e EXCEPT !.message = <<"Unable to find the tree for the left file.">>]
     ELSE IF left_events > right_events
     THEN [b EXCEPT !.message = <<"More events found on the left file, maybe right file is filtered?">>]
     ELSE IF left_events < right_events
     THEN [b EXCEPT !.message = <<"More events found on the right file, maybe left file is filtered?">>]
     ELSE IF left_events = 0
     THEN [b EXCEPT !.message = <<"There are no events in any file.">>]
     ELSE IF ~variable_exist_left /\ ~variable_exist_right
     THEN [b EXCEPT !.message = <<"Unable to find the variable for any of the files. Maybe it was skimmed out?">>]
     ELSE IF variable_exist_left /\ ~variable_exist_right
     THEN [b EXCEPT !.message = <<"Unable to find the variable for the right file. Maybe it was skimmed out?">>]
     ELSE IF ~variable_exist_left /\ variable_exist_right
     THEN [b EXCEPT !.message = <<"Unable to find the variable for the left file. Maybe it was skimmed out?">>]
     ELSE MeansChecked(b)

compare_root(file_dict) ==
  [i \in 1..Len(file_dict) |-> RootChecked(file_dict[i])]

\* lines 228-254 for one key.
FilesChecked(e) ==
  LET left_size == e.left.size
      right_size == e.right.size
      left_hash == e.left.hash
      right_hash == e.right.hash
  IN IF e.message # <<>> THEN e
     ELSE IF left_size # right_size
     THEN [e EXCEPT !.size_compared = TRUE,
                    !.message = <<"The file size does not match between the two files, they are different.">>]
     ELSE IF left_hash # right_hash
     THEN [e EXCEPT !.size_compared = TRUE, !.hash_compared = TRUE,
                    !.message = <<"The file hashes do not match between the two files, they are different.">>]
     ELSE [e EXCEPT !.size_compared = TRUE, !.hash_compared = TRUE]

compare_files(file_dict) ==
  [i \in 1..Len(file_dict) |-> FilesChecked(file_dict[i])]

\* The file names of the two directories, in natural order, and an entry
\* that is no root file.
DiffNames == <<"a.root", "b.root">>
OtherName == "notes.txt"

\* natsorted(compare_dict.keys()), line 294.
NatSorted(file_dict) ==
  SelectSeq(DiffNames, LAMBDA n : IndexOf(file_dict, n) # 0)

\* lines 295-300: the message of a key, "" being <<>>.
ReportMessage(e) ==
  IF e.message # <<>> THEN e.message \o e.additional ELSE <<>>

MatchText == <<"Matches on both sides">>

\* lines 294-313: the lines written, in order.
RECURSIVE ReportLines(_, _, _)
ReportLines(file_dict, keys, show) ==
  IF keys = <<>> THEN <<>>
  ELSE LET e == file_dict[IndexOf(file_dict, Head(keys))]
           message == ReportMessage(e)
           rest == ReportLines(file_dict, Tail(keys), show)
       IN IF message = <<>>
          THEN IF show THEN <<[key |-> e.key, text |-> MatchText]>> \o rest ELSE rest
          ELSE <<[key |-> e.key, text |-> message]>> \o rest

\* line 273.
FillLeft ==
  /\ dpc = "fill_left"
  /\ compare_dict' = fill_compare_file_dict(compare_dict, leftDir, "left")
  /\ dpc' = "fill_right"
  /\ UNCHANGED <<leftDir, rightDir, show_matches, outfile>>
  /\ UNCHANGED <<genOnly, orig_events, appVars>>
  /\ UNCHANGED skimVars

\* line 275.
FillRight ==
  /\ dpc = "fill_right"
  /\ compare_dict' = fill_compare_file_dict(compare_dict, rightDir, "right")
  /\ dpc' = "exists"
  /\ UNCHANGED <<leftDir, rightDir, show_matches, outfile>>
  /\ UNCHANGED <<genOnly, orig_events, appVars>>
  /\ UNCHANGED skimVars

\* line 278.
CompareExists ==
  /\ dpc = "exists"
  /\ compare_dict' = compare_exists(compare_dict)
  /\ dpc' = "root"
  /\ UNCHANGED <<leftDir, rightDir, show_matches, outfile>>
  /\ UNCHANGED <<genOnly, orig_events, appVars>>
  /\ UNCHANGED skimVars

\* line 281.
CompareRoot ==
  /\ dpc = "root"
  /\ compare_dict' = compare_root(compare_dict)
  /\ dpc' = "files"
  /\ UNCHANGED <<leftDir, rightDir, show_matches, outfile>>
  /\ UNCHANGED <<genOnly, orig_events, appVars>>
  /\ UNCHANGED skimVars

\* line 284.
CompareFiles ==
  /\ dpc = "files"
  /\ compare_dict' = compare_files(compare_dict)
  /\ dpc' = "report"
  /\ UNCHANGED <<leftDir, rightDir, show_matches, outfile>>
  /\ UNCHANGED <<genOnly, orig_events, appVars>>
  /\ UNCHANGED skimVars

\* lines 290-313.
Report ==
  /\ dpc = "report"
  /\ outfile' = ReportLines(compare_dict, NatSorted(compare_dict), show_matches)
  /\ dpc' = "done"
  /\ UNCHANGED <<leftDir, rightDir, show_matches, compare_dict>>
  /\ UNCHANGED <<genOnly, orig_events, appVars>>
  /\ UNCHANGED skimVars

NextDiff ==
  \/ FillLeft
  \/ FillRight
  \/ CompareExists
  \/ CompareRoot
  \/ CompareFiles
  \/ Report

\* The files a directory can hold under one name: one TFile cannot open,
\* one without the tree, and every tree.  The mean is computed only for a
\* tree with entries and the variable.
DiffCodes == {1, 2}
DiffFiles ==
  {RootFile(FALSE, FALSE, 0, 0, FALSE, 0, 1, 1), RootFile(TRUE, FALSE, 0, 0, FALSE, 0, 1, 1)}
  \cup {RootFile(TRUE, TRUE, b, n, v, m, s, h) :
          b \in 1..MaxBranches, n \in 0..MaxEntries, v \in BOOLEAN,
          m \in {0} \cup DiffCodes, s \in DiffCodes, h \in DiffCodes}

MeanComputed(f) == f.tree /\ f.events > 0 /\ f.variable

DiffPaths == {f \in DiffFiles : (f.mean # 0) = MeanComputed(f)} \cup {NoPath}

Listing(name, path) == IF path.present THEN <<DirEntry(name, TRUE, path)>> ELSE <<>>

\* One file name, every pair of files.
InitDiffSingle ==
  \E l \in DiffPaths, r \in DiffPaths :
    /\ leftDir = Listing(DiffNames[1], l)
    /\ rightDir = Listing(DiffNames[1], r)

\* Directories of up to two entries in any order.
BatchPaths ==
  {RootFile(TRUE, TRUE, 1, 1, TRUE, 1, 1, 1), RootFile(TRUE, TRUE, 2, 1, TRUE, 1, 1, 1),
   RootFile(TRUE, TRUE, 1, 1, TRUE, 1, 1, 2)}

BatchEntries ==
  {DirEntry(DiffNames[i], TRUE, p) : i \in 1..Len(DiffNames), p \in BatchPaths}
  \cup {DirEntry(OtherName, FALSE, NoPath)}

BatchListings ==
  {d \in SeqsUpTo(BatchEntries, Len(DiffNames)) :
     \A i \in 1..Len(d), j \in 1..Len(d) : i # j => d[i].name # d[j].name}

InitDiffBatch ==
  /\ leftDir \in BatchListings
  /\ rightDir \in BatchListings

InitDiff ==
  /\ InitDiffSingle \/ InitDiffBatch
  /\ show_matches \in BOOLEAN
  /\ compare_dict = <<>>
  /\ dpc = "fill_left"
  /\ outfile = <<>>
  /\ orig_events = 0
  /\ GenIdle
  /\ AppIdle
  /\ SkimIdle

SpecDiff == InitDiff /\ [][NextDiff]_vars

(***************************************************************************)
(* skim_ntuples.py                                                         *)
(***************************************************************************)

\* yaml_info["filter"]: false is <<>>, a count k is <<k>>.  The same for
\* branches[bname]["reinterpret"].
NoFilter == <<>>
Sentinel == 0 - 9999

\* One branch is kept, of type Float_t.  An input tree is the sequence of
\* the values the branch holds; an output entry is the input entry
\* GetEntry read and the value Fill() stored.
SkimEntry(kind, values) == [kind |-> kind, tree |-> values]
SkimRecord(n, v) == [entry |-> n, var |-> v]
NoSkim == [exists |-> FALSE, closed |-> FALSE, tree |-> <<>>]

\* lines 50-54: filter_events and do_filter.
filter_events == IF skimCfg.filter # NoFilter THEN skimCfg.filter[1] ELSE 0
do_filter == skimCfg.filter # NoFilter

\* lines 149-153: the buffer after the reinterpretation.
Reinterpreted(v, cfg) ==
  IF cfg.do_reinterpret /\ cfg.reinterpret # NoFilter /\ v = Sentinel
  THEN cfg.reinterpret[1]
  ELSE v

\* lines 145-155, one iteration: the output tree after it.
SkimFillAll(tree, entry, list, v, cfg) ==
  Append(tree, SkimRecord(entry, Reinterpreted(v, cfg)))
SkimFilled(tree, entry, list, v, cfg) ==
  IF ~(cfg.filter # NoFilter) \/ entry \in list
  THEN Append(tree, SkimRecord(entry, Reinterpreted(v, cfg)))
  ELSE tree

skimNext == skimDir[sFile + 1]
skimFile == skimDir[sFile]

\* lines 60-63: not a regular file, or not a .root file.
SkimSkip ==
  /\ spc = "iter"
  /\ sFile < Len(skimDir)
  /\ skimNext.kind = "other"
  /\ sFile' = sFile + 1
  /\ UNCHANGED <<skimDir, skimCfg, skimOut, spc, filter_event_list, sEvt, outtree>>
  /\ UNCHANGED <<genOnly, appVars, diffVars>>
  /\ UNCHANGED orig_events

\* lines 65-88: open the file, draw the events to keep (any
\* filter_events distinct indexes), create the output file.
SkimOpen ==
  /\ spc = "iter"
  /\ sFile < Len(skimDir)
  /\ skimNext.kind = "root"
  /\ orig_events' = Len(skimNext.tree)
  /\ ~do_filter \/ filter_events <= orig_events'
  /\ sFile' = sFile + 1
  /\ IF do_filter
     THEN \E s \in SUBSET (0..(orig_events' - 1)) :
            /\ Cardinality(s) = filter_events
            /\ filter_event_list' = s
     ELSE filter_event_list' = {}
  /\ skimOut' = [skimOut EXCEPT ![sFile'] = [exists |-> TRUE, closed |-> FALSE, tree |-> <<>>]]
  /\ outtree' = <<>>
  /\ sEvt' = 0
  /\ spc' = "fill"
  /\ UNCHANGED <<skimDir, skimCfg>>
  /\ UNCHANGED <<genOnly, appVars, diffVars>>

\* line 77: random.sample raises ValueError when the sample is larger than
\* the population; the output file of this entry is not created.
SkimSampleError ==
  /\ spc = "iter"
  /\ sFile < Len(skimDir)
  /\ skimNext.kind = "root"
  /\ orig_events' = Len(skimNext.tree)
  /\ do_filter /\ filter_events > orig_events'
  /\ sFile' = sFile + 1
  /\ spc' = "raised"
  /\ UNCHANGED <<skimDir, skimCfg, skimOut, filter_event_list, sEvt, outtree>>
  /\ UNCHANGED <<genOnly, appVars, diffVars>>

\* lines 145-155: one iteration of the loop over the events.
SkimFill ==
  /\ spc = "fill"
  /\ sEvt < orig_events
  /\ outtree' = SkimFilled(outtree, sEvt, filter_event_list,
                           skimFile.tree[sEvt + 1], skimCfg)
  /\ sEvt' = sEvt + 1
  /\ UNCHANGED <<skimDir, skimCfg, skimOut, spc, sFile, filter_event_list>>
  /\ UNCHANGED <<genOnly, appVars, diffVars>>
  /\ UNCHANGED orig_events

\* lines 157-163: write the tree, close the files.
SkimClose ==
  /\ spc = "fill"
  /\ sEvt = orig_events
  /\ skimOut' = [skimOut EXCEPT ![sFile] = [exists |-> TRUE, closed |-> TRUE, tree |-> outtree]]
  /\ spc' = "iter"
  /\ UNCHANGED <<skimDir, skimCfg, sFile, filter_event_list, sEvt, outtree>>
  /\ UNCHANGED <<genOnly, appVars, diffVars>>
  /\ UNCHANGED orig_events

\* line 59, directory exhausted.
SkimEnd ==
  /\ spc = "iter"
  /\ sFile = Len(skimDir)
  /\ spc' = "done"
  /\ UNCHANGED <<skimDir, skimCfg, skimOut, sFile, filter_event_list, sEvt, outtree>>
  /\ UNCHANGED <<genOnly, appVars, diffVars>>
  /\ UNCHANGED orig_events

NextSkim ==
  \/ SkimSkip
  \/ SkimOpen
  \/ SkimSampleError
  \/ SkimFill
  \/ SkimClose
  \/ SkimEnd

\* The values of the kept branch, the configurations.
SkimValues == {Sentinel, 7}
SkimTrees == SeqsUpTo(SkimValues, MaxSkimRecords)
SkimConfigs ==
  {[filter |-> f, do_reinterpret |-> d, reinterpret |-> r] :
     f \in {NoFilter} \cup {<<k>> : k \in 0..MaxSkimRecords},
     d \in BOOLEAN, r \in {NoFilter, <<0>>}}

\* One file, every tree.
InitSkimSingle ==
  \E t \in SkimTrees : skimDir = <<SkimEntry("root", t)>>

\* Directories of up to two entries.
SkimBatchEntries ==
  {SkimEntry("other", <<>>), SkimEntry("root", <<7>>), SkimEntry("root", <<Sentinel, 7>>)}

InitSkimBatch == skimDir \in SeqsUpTo(SkimBatchEntries, 2)

SkimInitRest ==
  /\ skimOut = [f \in 1..Len(skimDir) |-> NoSkim]
  /\ spc = "iter"
  /\ sFile = 0
  /\ filter_event_list = {}
  /\ sEvt = 0
  /\ outtree = <<>>

InitSkim ==
  /\ InitSkimSingle \/ InitSkimBatch
  /\ skimCfg \in SkimConfigs
  /\ SkimInitRest
  /\ orig_events = 0
  /\ GenIdle
  /\ AppIdle
  /\ DiffIdle

SpecSkim == InitSkim /\ [][NextSkim]_vars

(***************************************************************************)
(* Properties of split_train_test.py                                       *)
(***************************************************************************)
\* The files of run r whose output trees have been written and closed.
ClosedFiles(r) ==
  {f \in 1..Len(genRuns[r].dir) :
     /\ genRuns[r].dir[f].kind = "mc"
     /\ \/ r < run
        \/ r = run /\ gpc # "start" /\ f < fileNo
        \/ r = run /\ gpc \in {"iter", "done"} /\ f = fileNo}

Occurrences(i, tree) == Cardinality({j \in 1..Len(tree) : tree[j] = i})

\* C1: for each processed file with n records, every record index in
\* [0, n) is in exactly one of the Train and Test outputs, and nothing
\* else is: |Train| + |Test| = n.
C1_Partition ==
  \A r \in 1..Len(genRuns) : \A f \in ClosedFiles(r) :
    LET n == genRuns[r].dir[f].entries
    IN  /\ Len(TrainDir[r][f]) + Len(TestDir[r][f]) = n
        /\ \A i \in 0..(n - 1) :
             Occurrences(i, TrainDir[r][f]) + Occurrences(i, TestDir[r][f]) = 1

\* A file of at least two records has been split into a non-empty Train
\* and a non-empty Test output.
C1_Witness ==
  \E f \in ClosedFiles(1) :
    /\ genRuns[1].dir[f].entries >= 2
    /\ Len(TrainDir[1][f]) >= 1
    /\ Len(TestDir[1][f]) >= 1

\* C2 (as claimed): the number of records written to Train is
\* floor(n * trainFactor / (trainFactor + testFactor)) in exact
\* arithmetic, and Test gets the rest.
C2_ExactCount ==
  gpc = "sample" =>
    /\ train_events = (orig_events * args.train_factor)
                         \div (args.train_factor + args.test_factor)
    /\ test_events = orig_events - train_events


Range(tree) == {tree[j] : j \in 1..Len(tree)}

\* The record counts of the files of run r processed up to and including f.
RECURSIVE CountsUpTo(_, _)
CountsUpTo(r, f) ==
  IF f = 0 THEN <<>>
  ELSE IF genRuns[r].dir[f].kind = "mc"
       THEN Append(CountsUpTo(r, f - 1), genRuns[r].dir[f].entries)
       ELSE CountsUpTo(r, f - 1)

SameSeedAndFactors(r1, r2) ==
  /\ genRuns[r1].seed # NoSeed
  /\ genRuns[r1].seed = genRuns[r2].seed
  /\ genRuns[r1].train_factor = genRuns[r2].train_factor
  /\ genRuns[r1].test_factor = genRuns[r2].test_factor

\* C3 (as claimed): the Train index set of a file is a function of the
\* seed, the file's record count and the two factors only: two files with
\* the same record count, split with the same seed and factors, get the
\* same Train index set.
C3_SeedAndCountOnly ==
  \A r1 \in 1..Len(genRuns), r2 \in 1..Len(genRuns) :
    \A f1 \in ClosedFiles(r1), f2 \in ClosedFiles(r2) :
      (/\ SameSeedAndFactors(r1, r2)
       /\ genRuns[r1].dir[f1].entries = genRuns[r2].dir[f2].entries)
      => Range(TrainDir[r1][f1]) = Range(TrainDir[r2][f2])

\* C3 (amended): the Train index set of a file is a function of the seed,
\* the two factors and the record counts of the files processed in the run
\* up to and including it, in processing order.
C3_SeedAndHistory ==
  \A r1 \in 1..Len(genRuns), r2 \in 1..Len(genRuns) :
    \A f1 \in ClosedFiles(r1), f2 \in ClosedFiles(r2) :
      (/\ SameSeedAndFactors(r1, r2)
       /\ CountsUpTo(r1, f1) = CountsUpTo(r2, f2))
      => Range(TrainDir[r1][f1]) = Range(TrainDir[r2][f2])

\* Two runs with the same seed have each split a second file, after a
\* first one that drew from the generator, with the same counts so far.
C3_Witness ==
  /\ gpc = "done"
  /\ SameSeedAndFactors(1, 2)
  /\ \E f1 \in ClosedFiles(1), f2 \in ClosedFiles(2) :
       /\ CountsUpTo(1, f1) = CountsUpTo(2, f2)
       /\ Len(CountsUpTo(1, f1)) = 2
       /\ Len(TrainDir[1][1]) >= 1
       /\ Len(TrainDir[1][f1]) >= 1
       /\ Len(TestDir[1][f1]) >= 1

(***************************************************************************)
(* Properties of apply_pre_splitting.py                                    *)
(***************************************************************************)
Files == 1..Len(appDir)
Logged(level, msg, name) == \E i \in 1..Len(log) : log[i] = Message(level, msg, name)

\* The file has been loaded: its references cached, its output created.
Loaded(f) ==
  /\ f <= aFile
  /\ appDir[f].kind = "mc"
  /\ appDir[f].train.exists
  /\ appDir[f].test.exists
\* The processing of the file has ended.
Ended(f) == f < aFile \/ (f = aFile /\ apc \in {"iter", "done"})
Discarded(f) == Loaded(f) /\ Logged("warning", "file was not split", appDir[f].name)
Aborted(f) == Loaded(f) /\ Logged("error", "multiple matches", appDir[f].name)
Written(f) == Loaded(f) /\ Ended(f) /\ ~Discarded(f) /\ ~Aborted(f)
Output(f) == outDir[appDir[f].name]

SameKey(a, b) == a.Run = b.Run /\ a.LumiSec = b.LumiSec /\ a.Event = b.Event
KeyCount(k, tree) == Cardinality({j \in 1..Len(tree) : SameKey(tree[j], k)})
EventCount(k, tree) == Cardinality({j \in 1..Len(tree) : tree[j].Event = k.Event})

\* C4 (as claimed): the lookup counts an entry as a match only when Run,
\* LumiSec and Event all equal those of the record.
C4_MatchOnAllThreeFields ==
  apc = "scan" =>
    \A i \in 1..Len(matchesNow) :
      /\ matchesNow[i].run = current.Run
      /\ matchesNow[i].lumi = current.LumiSec
      /\ matchesNow[i].evt = current.Event

\* Each key occurs at most once across the two references of file f.
UniqueKeys(f) ==
  \A k \in Keys : KeyCount(k, appDir[f].train.tree) + KeyCount(k, appDir[f].test.tree) <= 1

\* C5 (as claimed): with each key at most once in the references, the
\* file is written with one output entry per input entry, in order, that
\* carries the Train flags if its key is in Train, the Test flags if its
\* key is in Test and (0, 0) if it is in neither.
C5_FlagsFollowKeys ==
  \A f \in Files :
    (Loaded(f) /\ Ended(f) /\ UniqueKeys(f)) =>
      /\ Output(f).exists
      /\ Output(f).closed
      /\ Len(Output(f).tree) = Len(appDir[f].tree)
      /\ \A i \in 1..Len(appDir[f].tree) :
           /\ Output(f).tree[i].isTrain = KeyCount(appDir[f].tree[i], appDir[f].train.tree)
           /\ Output(f).tree[i].isTest = KeyCount(appDir[f].tree[i], appDir[f].test.tree)

\* The entries filled for file f so far, and those of its output on disk.
Emitted(f) ==
  {splitTree[i] : i \in {j \in 1..Len(splitTree) : f = aFile}}
  \cup {Output(f).tree[i] : i \in 1..Len(Output(f).tree)}

\* C6: an emitted entry for which exactly one index entry matches carries
\* that entry's flags: (1, 0) if it was read from the Train reference,
\* (0, 1) if from the Test reference.  Stated for the lookup's notion of
\* a match (same Event) and for equality of all three fields.
C6_SingleMatchFlags ==
  \A f \in Files : Loaded(f) =>
    \A rec \in Emitted(f) :
      LET tr == appDir[f].train.tree
          te == appDir[f].test.tree
      IN  /\ EventCount(rec, tr) + EventCount(rec, te) = 1
               => (rec.isTrain = EventCount(rec, tr) /\ rec.isTest = EventCount(rec, te))
          /\ KeyCount(rec, tr) + KeyCount(rec, te) = 1
               => (rec.isTrain = KeyCount(rec, tr) /\ rec.isTest = KeyCount(rec, te))

\* A written file holds an entry flagged Train and an entry flagged Test.
C6_Witness ==
  \E f \in Files :
    /\ Written(f)
    /\ \E rec \in Emitted(f) : rec.isTrain = 1 /\ rec.isTest = 0
    /\ \E rec \in Emitted(f) : rec.isTrain = 0 /\ rec.isTest = 1

\* The number of index entries whose three fields equal those of k.
KeyTotal(f, k) == KeyCount(k, appDir[f].train.tree) + KeyCount(k, appDir[f].test.tree)

\* C7 (as claimed): a file none of whose records has its key in the index
\* is written, every record emitted in order with isTrain = isTest = 0.
C7_NotFoundIsEmitted ==
  \A f \in Files :
    (Loaded(f) /\ Ended(f) /\ \A i \in 1..Len(appDir[f].tree) : KeyTotal(f, appDir[f].tree[i]) = 0) =>
      /\ Written(f)
      /\ Output(f).exists
      /\ Output(f).closed
      /\ Len(Output(f).tree) = Len(appDir[f].tree)
      /\ \A i \in 1..Len(appDir[f].tree) :
           /\ SameKey(Output(f).tree[i], appDir[f].tree[i])
           /\ Output(f).tree[i].isTrain = 0
           /\ Output(f).tree[i].isTest = 0

\* What the code does when the lookup itself returns nothing: the record
\* is filled with isTrain = isTest = 0 and the scan goes on, nothing is
\* logged and the file is not marked as not split.
EmptyLookupIsEmitted ==
  [][(apc = "scan" /\ Len(matchesNow) = 0)
       => /\ splitTree' = Append(splitTree, OutEntry(current, [isTrain |-> 0, isTest |-> 0]))
          /\ evt' = evt + 1
          /\ apc' = IF evt + 1 = orig_events THEN "write" ELSE "scan"
          /\ fileNotSplit' = fileNotSplit
          /\ log' = log
          /\ aFile' = aFile]_vars

\* C8 (as claimed): a file whose first record has exactly two index
\* entries with its key is abandoned with a warning naming the file, and
\* once its processing has ended no output file of its name exists.
C8_TwoMatchesDiscardFile ==
  \A f \in Files :
    (Loaded(f) /\ Ended(f) /\ Len(appDir[f].tree) >= 1 /\ KeyTotal(f, appDir[f].tree[1]) = 2) =>
      /\ Discarded(f)
      /\ ~Output(f).exists

\* What the code does when the lookup itself returns two entries: the loop
\* is left without filling the record and a warning naming the file is
\* logged; a file so warned about has no output once its processing ended.
PairLookupDiscardsFile ==
  [][/\ (apc = "scan" /\ Len(matchesNow) = 2)
          => /\ apc' = "write"
             /\ fileNotSplit'
             /\ splitTree' = splitTree
             /\ evt' = evt
             /\ aFile' = aFile
             /\ log' = Append(log, Message("warning", "file was not split", file.name))
     /\ (\A f \in Files : (Discarded(f) /\ Ended(f)) => ~Output(f).exists)']_vars

ErrorLogged == \E i \in 1..Len(log) : log[i].level = "error"

\* The keys of the index entries, as records of a tree.
LastReadKeys == [j \in 1..Len(eventList) |-> Key(eventList[j].run, eventList[j].lumi, eventList[j].evt)]

\* C9: at a record for which the lookup returns more than two entries (as
\* it does whenever more than two entries have the record's key) an error
\* naming the file is logged and script_main returns: no step is taken
\* once the error has been logged, so no later file is processed.
C9_MultipleMatchesStopRun ==
  [][/\ (apc = "scan" /\ (Len(matchesNow) > 2 \/ KeyCount(current, LastReadKeys) > 2))
          => /\ apc' = "done"
             /\ aFile' = aFile
             /\ log' = Append(log, Message("error", "multiple matches", file.name))
     /\ ~ErrorLogged]_vars

\* The run has stopped on an error while a file that could be processed
\* was still to come.
C9_Witness ==
  /\ ErrorLogged
  /\ apc = "done"
  /\ aFile < Len(appDir)
  /\ appDir[aFile + 1].kind = "mc"
  /\ appDir[aFile + 1].train.exists
  /\ appDir[aFile + 1].test.exists

\* C10: the output of a written file has one entry per input entry, in
\* the same order, with the same Run, LumiSec and Event; a file that hit
\* the two-match case has no output.
C10_OrderAndCount ==
  \A f \in Files :
    /\ Written(f) =>
         /\ Output(f).exists
         /\ Output(f).closed
         /\ Len(Output(f).tree) = Len(appDir[f].tree)
         /\ \A i \in 1..Len(appDir[f].tree) : SameKey(Output(f).tree[i], appDir[f].tree[i])
    /\ (Discarded(f) /\ Ended(f)) => ~Output(f).exists

\* A file of two entries with different keys, one of them not found, is written.
C10_Witness ==
  \E f \in Files :
    /\ Written(f)
    /\ Len(appDir[f].tree) = 2
    /\ ~SameKey(appDir[f].tree[1], appDir[f].tree[2])
    /\ \E i \in 1..2 : Output(f).tree[i].isTrain + Output(f).tree[i].isTest = 0

\* C11 (as claimed): at every moment the output location of a file that
\* has been taken up holds no file or the complete, closed output of
\* that file, one entry per input entry.
C11_AtomicOutput ==
  \A f \in Files :
    Loaded(f) =>
      \/ ~Output(f).exists
      \/ /\ Output(f).closed
         /\ Len(Output(f).tree) = Len(appDir[f].tree)

\* split_train_test.py, lines 97-103, on the records of a tree: the fill
\* loop over range(k) sorts the entry numbers into the two trees, and an
\* output tree holds the input records of its entry numbers.
RECURSIVE SplitTrees(_, _)
SplitTrees(k, list) ==
  IF k = 0 THEN [train |-> <<>>, test |-> <<>>]
  ELSE FillTrees(k - 1, list, SplitTrees(k - 1, list))
RecordsOf(tree, entries) == [j \in 1..Len(entries) |-> tree[entries[j] + 1]]

\* The sizes of the Train sample the Generator can draw for n records.
TrainCounts(n) ==
  {TrainCount(n, FloatDiv(tf, tf + sf), tf, sf) : tf \in 1..MaxFactor, sf \in 1..MaxFactor}

\* The references of file f are what the Generator writes for its tree.
FromGenerator(f) ==
  LET tree == appDir[f].tree
  IN  \E list \in SUBSET (0..(Len(tree) - 1)) :
        /\ Cardinality(list) \in TrainCounts(Len(tree))
        /\ appDir[f].train.tree = RecordsOf(tree, SplitTrees(Len(tree), list).train)
        /\ appDir[f].test.tree = RecordsOf(tree, SplitTrees(Len(tree), list).test)

DistinctKeys(tree) ==
  \A i, j \in 1..Len(tree) : i # j => ~SameKey(tree[i], tree[j])
DistinctEvents(tree) ==
  \A i, j \in 1..Len(tree) : i # j => tree[i].Event # tree[j].Event

\* The output of f gives every record the category of the reference
\* that holds it.
CategoriesKept(f) ==
  /\ Written(f)
  /\ Output(f).exists
  /\ Output(f).closed
  /\ Len(Output(f).tree) = Len(appDir[f].tree)
  /\ \A i \in 1..Len(appDir[f].tree) :
       /\ SameKey(Output(f).tree[i], appDir[f].tree[i])
       /\ Output(f).tree[i].isTrain = KeyCount(appDir[f].tree[i], appDir[f].train.tree)
       /\ Output(f).tree[i].isTest = KeyCount(appDir[f].tree[i], appDir[f].test.tree)

\* C12 (as claimed): for a file with pairwise distinct keys whose
\* references are the Generator's Train and Test outputs for it, the
\* file is written and every record gets the category the Generator
\* gave it.
C12_RoundTrip ==
  \A f \in Files :
    (Loaded(f) /\ Ended(f) /\ DistinctKeys(appDir[f].tree) /\ FromGenerator(f))
      => CategoriesKept(f)

\* What the code gives: the round trip for a file whose records have
\* pairwise distinct Event numbers.
RoundTripDistinctEvents ==
  \A f \in Files :
    (Loaded(f) /\ Ended(f) /\ DistinctEvents(appDir[f].tree) /\ FromGenerator(f))
      => CategoriesKept(f)

\* File f can be processed: a regular .root file, not a data sample, with
\* both references.
Eligible(f) ==
  /\ f <= Len(appDir)
  /\ appDir[f].kind = "mc"
  /\ appDir[f].train.exists
  /\ appDir[f].test.exists
\* File g was passed over for a missing reference.
SkippedNoReference(g) ==
  /\ g <= aFile
  /\ appDir[g].kind = "mc"
  /\ ~(appDir[g].train.exists /\ appDir[g].test.exists)
\* File f has been processed to its end.
Processed(f) == Loaded(f) /\ Ended(f) /\ (Written(f) \/ Discarded(f))

\* C13: once a file has been skipped for a missing reference or discarded
\* for two matches, every later eligible file is processed to its end
\* unless the run stops on the more-than-two-match error; and the run
\* ends before the end of the directory only with that error logged.
C13_ErrorIsolation ==
  /\ \A g \in 1..MaxFiles : \A f \in 1..MaxFiles :
       (g < f /\ Eligible(f) /\ (SkippedNoReference(g) \/ (Discarded(g) /\ Ended(g))))
         ~> (Processed(f) \/ ErrorLogged)
  /\ [](apc = "done" => (aFile = Len(appDir) \/ ErrorLogged))

\* A file is written after one that was skipped and one that was discarded.
C13_Witness ==
  \E g \in Files : \E f \in Files :
    /\ g < f
    /\ SkippedNoReference(g) \/ (Discarded(g) /\ Ended(g))
    /\ Processed(f)
    /\ Written(f)
    /\ ~ErrorLogged

\* C14 (as claimed): a file whose Train and Test references both exist
\* and hold no entry is skipped and no output file is written for it.
C14_EmptyReferencesSkipped ==
  \A f \in Files :
    (Loaded(f) /\ Ended(f)
       /\ Len(appDir[f].train.tree) = 0 /\ Len(appDir[f].test.tree) = 0)
      => ~Output(f).exists

\* Every record of f has exactly one index entry with its key.
DefiniteCategories(f) ==
  /\ Len(appDir[f].tree) >= 1
  /\ \A i \in 1..Len(appDir[f].tree) : KeyTotal(f, appDir[f].tree[i]) = 1

C16_Idempotent ==
  (pass = 2 /\ apc = "done") => (outDir = firstOut /\ log = firstLog)

\* A second invocation has ended, with a written file of two entries and
\* a discarded file.
C16_Witness ==
  /\ pass = 2
  /\ apc = "done"
  /\ \E f \in Files : Written(f) /\ Len(Output(f).tree) = 2
  /\ \E f \in Files : Discarded(f)

\* The complete output of f is in the output directory.
CompleteOutput(f) ==
  /\ Output(f).exists
  /\ Output(f).closed
  /\ Len(Output(f).tree) = Len(appDir[f].tree)

\* C17 (as claimed, the state reached): a file that was taken up, none of
\* whose records has more than two index entries with its key, ends
\* either Written with its complete output present or Discarded with no
\* output present, and Discarded only if one of its records has two
\* index entries with its key.
C17_TerminalStates ==
  \A f \in Files :
    (Loaded(f) /\ Ended(f)
       /\ \A i \in 1..Len(appDir[f].tree) : KeyTotal(f, appDir[f].tree[i]) <= 2)
      => \/ Written(f) /\ CompleteOutput(f)
         \/ /\ Discarded(f) /\ ~Aborted(f) /\ ~Output(f).exists
            /\ \E i \in 1..Len(appDir[f].tree) : KeyTotal(f, appDir[f].tree[i]) = 2

\* What the code gives: a file that was taken up and for none of whose
\* records the lookup returns more than two entries reaches the end of
\* its processing, Written with its complete output or Discarded with
\* none, and Discarded only after the lookup returned two entries.
LookupCount(f, i) ==
  EventCount(appDir[f].tree[i], appDir[f].train.tree)
    + EventCount(appDir[f].tree[i], appDir[f].test.tree)
FileReachesTerminalState ==
  \A f \in 1..MaxFiles :
    (Loaded(f) /\ \A i \in 1..Len(appDir[f].tree) : LookupCount(f, i) <= 2)
      ~> (/\ Loaded(f) /\ Ended(f)
          /\ \/ Written(f) /\ CompleteOutput(f)
             \/ /\ Discarded(f) /\ ~Aborted(f) /\ ~Output(f).exists
                /\ \E i \in 1..Len(appDir[f].tree) : LookupCount(f, i) = 2)

\* Some message of the given level names the file.
Names(level, name) ==
  \E i \in 1..Len(log) : log[i].level = level /\ log[i].file = name

\* C18: a file passed over for a missing Train or Test reference, a file
\* discarded for two matches and a file on which the run stopped each
\* have a warning or error message naming them; the step that skips,
\* discards or stops is the step that logs it.
C18_NoSilentSkip ==
  [][/\ \A f \in Files' :
          /\ SkippedNoReference(f)' => Names("warning", appDir[f].name)'
          /\ (Loaded(f) /\ Ended(f) /\ ~Aborted(f) /\ ~CompleteOutput(f))'
               => Names("warning", appDir[f].name)'
          /\ (Loaded(f) /\ apc = "done" /\ Output(f).exists /\ ~Output(f).closed)'
               => Names("error", appDir[f].name)'
     /\ (apc = "iter" /\ aFile' = aFile + 1 /\ apc' = "iter" /\ nextFile.kind = "mc")
          => log'[Len(log')] \in
               {Message("warning", "no pre-split train file", nextFile.name),
                Message("warning", "no pre-split test file", nextFile.name)}
     /\ (fileNotSplit' /\ ~fileNotSplit)
          => log' = Append(log, Message("warning", "file was not split", file.name))
     /\ (apc = "scan" /\ apc' = "done")
          => log' = Append(log, Message("error", "multiple matches", file.name))]_vars

\* A run in which one file was skipped for its missing Test reference and
\* a later one stopped the run, both named in the log.
C18_Witness ==
  \E g \in Files : \E f \in Files :
    /\ g < f
    /\ SkippedNoReference(g)
    /\ appDir[g].train.exists
    /\ Names("warning", appDir[g].name)
    /\ Aborted(f)
    /\ Names("error", appDir[f].name)

\* The single w is a nearest single-precision value of a / b.
NearestSingle(w, a, b) ==
  LET d == 2 * w.m * b - a * 2^(SingleBits + 1 - w.e)
  IN  /\ w.m >= 2^SingleBits
      /\ w.m < 2^(SingleBits + 1)
      /\ w.e >= 0
      /\ d <= b
      /\ -d <= b

\* The splitFactor branches of run r: those written, and those of the
\* trees being filled.
BranchesOf(r) ==
  {SplitFactorDir[r][f] : f \in 1..Len(genRuns[r].dir)}
  \cup (IF r = run THEN {splitFactor} ELSE {})
TrainFactors(r) == UNION {{b.train[j] : j \in 1..Len(b.train)} : b \in BranchesOf(r)}
TestFactors(r) == UNION {{b.test[j] : j \in 1..Len(b.test)} : b \in BranchesOf(r)}

\* C19: every entry written to Train carries the single-precision value
\* of (train_factor + test_factor) / train_factor and every entry written
\* to Test that of (train_factor + test_factor) / test_factor, one value
\* per category for all files and entries of the run, and every entry of
\* a written tree has one.
C19_SplitFactor ==
  \A r \in 1..Len(genRuns) :
    LET tf == genRuns[r].train_factor
        sf == genRuns[r].test_factor
    IN  /\ \A w \in TrainFactors(r) : NearestSingle(w, tf + sf, tf)
        /\ \A w \in TestFactors(r) : NearestSingle(w, tf + sf, sf)
        /\ Cardinality(TrainFactors(r)) <= 1
        /\ Cardinality(TestFactors(r)) <= 1
        /\ \A f \in ClosedFiles(r) :
             /\ Len(SplitFactorDir[r][f].train) = Len(TrainDir[r][f])
             /\ Len(SplitFactorDir[r][f].test) = Len(TestDir[r][f])

\* A run with factors 3 to 1, whose Train value 4/3 is no single-precision
\* number, has written two files, each with entries in both categories.
C19_Witness ==
  /\ gpc = "done"
  /\ args.train_factor = 3
  /\ args.test_factor = 1
  /\ Len(args.dir) = 2
  /\ \A f \in 1..2 :
       /\ f \in ClosedFiles(run)
       /\ Len(SplitFactorDir[run][f].train) >= 1
       /\ Len(SplitFactorDir[run][f].test) >= 1


(***************************************************************************)
(* Properties of diff_ntuple_dirs.py                                       *)
(***************************************************************************)

DiffEntries == {compare_dict[i] : i \in 1..Len(compare_dict)}

\* The report holds e's key as matching: no line gives the key a message,
\* and with show_matches the line "Matches on both sides" is there.
ReportedMatching(e) ==
  /\ dpc = "done"
  /\ \A i \in 1..Len(outfile) : outfile[i].key = e.key => outfile[i].text = MatchText
  /\ show_matches => \E i \in 1..Len(outfile) : outfile[i].key = e.key

BothOpenWithTree(e) ==
  /\ e.left.present /\ e.right.present
  /\ e.left.good /\ e.right.good
  /\ e.left.tree /\ e.right.tree

EqualLengthAndMean(e) ==
  /\ BothOpenWithTree(e)
  /\ e.left.events = e.right.events
  /\ e.left.events > 0
  /\ e.left.variable /\ e.right.variable
  /\ e.left.mean = e.right.mean

AllEqual(e) ==
  /\ EqualLengthAndMean(e)
  /\ e.left.branches = e.right.branches
  /\ e.left.size = e.right.size
  /\ e.left.hash = e.right.hash

\* The sizes were compared, and the digests when the sizes are equal.
SizeAndHashCompared(e) ==
  /\ e.size_compared
  /\ e.left.size = e.right.size => e.hash_compared

\* C20: a file name is reported as matching only if it is in both
\* directories, both files open, both have the tree, the branch counts are
\* equal, the entry counts are equal and not zero, both have the variable,
\* the means, the sizes and the digests are equal; and for every pair with
\* equal length and equal mean the size and the digest are compared.
C20_MatchAndFileComparison ==
  dpc = "done" =>
    \A e \in DiffEntries :
      /\ ReportedMatching(e) => AllEqual(e)
      /\ EqualLengthAndMean(e) => SizeAndHashCompared(e)

\* The first half of C20 holds, and so does its converse.
MatchingIffAllEqual ==
  dpc = "done" => \A e \in DiffEntries : ReportedMatching(e) <=> AllEqual(e)

\* The second half holds for the pairs with equal branch counts, and for no
\* other pair.
FilesComparedIffBranchesEqual ==
  dpc = "done" =>
    \A e \in DiffEntries :
      EqualLengthAndMean(e) =>
        (e.size_compared <=> e.left.branches = e.right.branches)
        /\ (e.size_compared => SizeAndHashCompared(e))

\* A pair that differs in its branch counts alone is reported with the
\* branch message, its sizes never compared.
BranchPairNotCompared ==
  /\ dpc = "done"
  /\ \E e \in DiffEntries :
       /\ EqualLengthAndMean(e)
       /\ e.left.branches > e.right.branches
       /\ e.left.size # e.right.size
       /\ ~e.size_compared
       /\ \E i \in 1..Len(outfile) :
            /\ outfile[i].key = e.key
            /\ outfile[i].text = <<"More branches found on the left file, maybe right file is a skim?">>

\* A pair that is equal throughout is reported as matching.
MatchReported ==
  /\ dpc = "done"
  /\ show_matches
  /\ \E e \in DiffEntries : AllEqual(e) /\ ReportedMatching(e)


(***************************************************************************)
(* Properties of skim_ntuples.py                                           *)
(***************************************************************************)

SkimWritten(f) == skimOut[f].exists /\ skimOut[f].closed

\* The output entries are distinct input entries in input order, each with
\* the value of the input entry it was read from (a -9999 replaced when the
\* configuration reinterprets it).
InInputOrder(f) ==
  LET out == skimOut[f].tree
      in == skimDir[f].tree
  IN /\ \A i \in 1..Len(out) :
          /\ out[i].entry \in 0..(Len(in) - 1)
          /\ out[i].var = Reinterpreted(in[out[i].entry + 1], skimCfg)
     /\ \A i \in 1..Len(out), j \in 1..Len(out) : i < j => out[i].entry < out[j].entry

\* C21: with a filter count k, 0 <= k <= n, the output of a file of n
\* records holds exactly k records, each a distinct input record, in input
\* order; with the filter false it holds all n records in input order.
C21_FilterCount ==
  \A f \in 1..Len(skimDir) :
    SkimWritten(f) =>
      /\ InInputOrder(f)
      /\ Len(skimOut[f].tree) = IF do_filter THEN filter_events ELSE Len(skimDir[f].tree)

\* A file of three records is skimmed to two of them.
C21_Witness ==
  /\ spc = "done"
  /\ do_filter /\ filter_events = 2
  /\ \E f \in 1..Len(skimDir) :
       /\ SkimWritten(f)
       /\ Len(skimDir[f].tree) = 3
       /\ Len(skimOut[f].tree) = 2
       /\ skimOut[f].tree[1].entry = 0
       /\ skimOut[f].tree[2].entry = 2

(***************************************************************************)
(* Properties of apply_pre_splitting.py: the index                         *)
(***************************************************************************)

\* A file is being processed: loaded and not yet ended.
InProgress == apc \in {"scan", "write", "end"}

\* C22: while a file is processed the index holds exactly the entries read
\* from the file's own Train and Test references, one per reference record
\* (Train first, in file order), and nothing of a file processed before.
C22_IndexIsOwnReferences ==
  InProgress =>
    LET train == appDir[aFile].train.tree
        test == appDir[aFile].test.tree
    IN /\ Len(eventList) = Len(train) + Len(test)
       /\ \A i \in 1..Len(train) :
            /\ Key(eventList[i].run, eventList[i].lumi, eventList[i].evt) = train[i]
            /\ eventList[i].isTrain /\ ~eventList[i].isTest
       /\ \A i \in 1..Len(test) :
            LET e == eventList[Len(train) + i]
            IN /\ Key(e.run, e.lumi, e.evt) = test[i]
               /\ ~e.isTrain /\ e.isTest

\* The second file of a directory is processed after a first file whose
\* references held two entries; its own hold one.
C22_Witness ==
  /\ apc = "scan"
  /\ aFile = 2
  /\ Loaded(1)
  /\ Len(appDir[1].train.tree) + Len(appDir[1].test.tree) = 2
  /\ Len(eventList) = 1

\* Two entries of the index carry the same key.
Collides(list) ==
  \E i \in 1..Len(list), j \in 1..Len(list) :
    /\ i # j
    /\ list[i].run = list[j].run /\ list[i].lumi = list[j].lumi /\ list[i].evt = list[j].evt

\* The message of a discarded file or of an aborted run.
Anomaly(m) == m.msg \in {"file was not split", "multiple matches"}

\* C23: the construction of the index completes whatever the references
\* hold: loading a file whose references exist leaves the whole index
\* built and the scan (or, for an empty tree, the writing) about to start,
\* with nothing logged but the processing message.  A collision is
\* reported only by a step of the scan whose lookup returned two entries
\* or more, and it is reported when a record with the colliding key is
\* looked up.
C23_ConstructionNeverStops ==
  /\ [][(/\ apc = "iter" /\ aFile < Len(appDir) /\ nextFile.kind = "mc"
         /\ nextFile.train.exists /\ nextFile.test.exists)
        => /\ apc' \in {"scan", "write"}
           /\ Len(eventList') = Len(nextFile.train.tree) + Len(nextFile.test.tree)
           /\ log' = Append(log, Message("info", "processing file", nextFile.name))]_vars
  /\ [][(Len(log') > Len(log) /\ Anomaly(log'[Len(log')]))
        => (apc = "scan" /\ Len(matchesNow) >= 2)]_vars
  /\ [][(apc = "scan" /\ KeyCount(current, LastReadKeys) >= 2)
        => /\ Len(log') = Len(log) + 1
           /\ Anomaly(log'[Len(log')])
           /\ log'[Len(log')].file = file.name]_vars

\* An index with a collision has been built and a record with another
\* Event number has been filled: nothing is reported yet.
C23_Witness ==
  /\ apc = "scan"
  /\ evt = 1
  /\ Collides(eventList)
  /\ Len(splitTree) = 1
  /\ \A i \in 1..Len(log) : ~Anomaly(log[i])

(***************************************************************************)
(* Properties of apply_pre_splitting.py: what the outcome depends on       *)
(***************************************************************************)

\* The cache of the pre-split data had the Test tree been read first.
CacheSplitTestFirst(trainTree, testTree) ==
  [i \in 1..Len(testTree) |->
     EventID(testTree[i].Run, testTree[i].LumiSec, testTree[i].Event, FALSE, TRUE)]
  \o [i \in 1..Len(trainTree) |->
     EventID(trainTree[i].Run, trainTree[i].LumiSec, trainTree[i].Event, TRUE, FALSE)]

\* The loop of lines 156-182 over a tree with a given index, from record i
\* on: how it ends and the entries it has filled.
RECURSIVE ScanFrom(_, _, _, _)
ScanFrom(tree, index, i, out) ==
  IF i > Len(tree) THEN [outcome |-> "written", tree |-> out]
  ELSE LET matches == search(tree[i].Run, tree[i].LumiSec, tree[i].Event, index)
       IN IF Len(matches) = 2 THEN [outcome |-> "discarded", tree |-> out]
          ELSE IF Len(matches) > 2 THEN [outcome |-> "aborted", tree |-> out]
          ELSE ScanFrom(tree, index, i + 1,
                        Append(out, OutEntry(tree[i],
                                 FlagsOf(matches, [isTrain |-> 0, isTest |-> 0]))))

ScanResult(tree, index) == ScanFrom(tree, index, 1, <<>>)

IsPrefix(s, t) == Len(s) <= Len(t) /\ \A i \in 1..Len(s) : s[i] = t[i]

\* What the script has done with file f agrees with the result r.
AgreesWith(f, r) ==
  /\ Ended(f) =>
       /\ Written(f) <=> r.outcome = "written"
       /\ Discarded(f) <=> r.outcome = "discarded"
       /\ Aborted(f) <=> r.outcome = "aborted"
       /\ Written(f) => Output(f) = TreeFile(r.tree)
       /\ Discarded(f) => ~Output(f).exists
  /\ f = aFile => IsPrefix(splitTree, r.tree)
  /\ (f = aFile /\ apc \in {"write", "end", "done"}) => splitTree = r.tree

\* C24: the outcome of every file and every flag that is emitted are those
\* of the scan over the index built Test first.
C24_ScanOrderIndependent ==
  \A f \in Files :
    Loaded(f) =>
      AgreesWith(f, ScanResult(appDir[f].tree,
                               CacheSplitTestFirst(appDir[f].train.tree,
                                                   appDir[f].test.tree)))

\* A file with entries in both references is written with an entry of
\* each category.
C24_Witness ==
  \E f \in Files :
    /\ Written(f)
    /\ Len(appDir[f].train.tree) > 0
    /\ Len(appDir[f].test.tree) > 0
    /\ \E i \in 1..Len(Output(f).tree) : Output(f).tree[i].isTrain = 1
    /\ \E i \in 1..Len(Output(f).tree) : Output(f).tree[i].isTest = 1

\* C25: every entry of the index has exactly one of isTrain and isTest
\* true; no emitted entry has both flags set, and an emitted entry has
\* both flags clear only if no entry of the file's references has its key
\* (none has even its Event number).
C25_FlagsExclusive ==
  /\ \A i \in 1..Len(eventList) : eventList[i].isTrain # eventList[i].isTest
  /\ \A f \in Files :
       Loaded(f) =>
         \A e \in Emitted(f) :
           /\ e.isTrain \in {0, 1} /\ e.isTest \in {0, 1}
           /\ ~(e.isTrain = 1 /\ e.isTest = 1)
           /\ (e.isTrain = 0 /\ e.isTest = 0) =>
                /\ KeyCount(e, appDir[f].train.tree) + KeyCount(e, appDir[f].test.tree) = 0
                /\ EventCount(e, appDir[f].train.tree) + EventCount(e, appDir[f].test.tree) = 0

\* A file is written with an entry of no category next to one of a
\* category, from an index of one entry.
C25_Witness ==
  \E f \in Files :
    /\ Written(f)
    /\ f = aFile
    /\ Len(eventList) = 1
    /\ \E e \in Emitted(f) : e.isTrain = 0 /\ e.isTest = 0
    /\ \E e \in Emitted(f) : e.isTrain + e.isTest = 1

\* Entry f of the directory is one the script skips.
Skips(f) ==
  \/ appDir[f].kind \in {"other", "Data"}
  \/ ~appDir[f].train.exists
  \/ ~appDir[f].test.exists

\* C26: the step that skips an entry leaves the output directory as it is,
\* and no step of the run creates, overwrites or deletes the output file
\* named after a skipped entry.
C26_SkipLeavesOutput ==
  /\ [][(apc = "iter" /\ aFile < Len(appDir) /\ Skips(aFile + 1))
        => (outDir' = outDir /\ aFile' = aFile + 1 /\ apc' = "iter")]_vars
  /\ [][\A f \in Files : Skips(f) => outDir'[appDir[f].name] = outDir[appDir[f].name]]_vars

\* The run has ended: an entry without its Test reference was skipped and
\* the output an earlier run left under its name is still there, while
\* another file has been written.
C26_Witness ==
  /\ apc = "done"
  /\ \E f \in Files, g \in Files :
       /\ appDir[f].kind = "mc"
       /\ appDir[f].train.exists
       /\ ~appDir[f].test.exists
       /\ Output(f) = StaleFile
       /\ Written(g)
       /\ Output(g) # StaleFile

\* The keys of the two references of file f, Train first.
ReferenceKeys(f) == appDir[f].train.tree \o appDir[f].test.tree

\* The positions of the records of file f with two matches or more, for a
\* given way of counting the matches of a record.
Collisions(f, Count(_, _)) ==
  {i \in 1..Len(appDir[f].tree) : Count(appDir[f].tree[i], ReferenceKeys(f)) >= 2}

\* The first such record decides how the processing of file f ended.
DecidedByFirst(f, Count(_, _)) ==
  IF Collisions(f, Count) = {}
  THEN Written(f)
  ELSE LET first == CHOOSE i \in Collisions(f, Count) :
                      \A j \in Collisions(f, Count) : i <= j
           n == Count(appDir[f].tree[first], ReferenceKeys(f))
       IN /\ n = 2 => /\ Discarded(f) /\ ~Aborted(f)
                      /\ ~Output(f).exists
                      /\ apc = "done" => aFile = Len(appDir)
          /\ n > 2 => Aborted(f) /\ ~Discarded(f) /\ f = aFile /\ apc = "done"
          /\ f = aFile => Len(splitTree) = first - 1

\* C27 (as claimed): the first record with at least two index entries of
\* its key decides the outcome of the file: two discard it and the batch
\* goes on, more than two abort the run, and no later record is filled.
C27_FirstCollisionDecides ==
  \A f \in Files : (Loaded(f) /\ Ended(f)) => DecidedByFirst(f, KeyCount)

\* The same holds of the first record for which the lookup returns two
\* entries or more.
FirstLookupCollisionDecides ==
  \A f \in Files : (Loaded(f) /\ Ended(f)) => DecidedByFirst(f, EventCount)

\* Two entries that differ in Run share an Event number: the file holds no
\* record with two entries of its key, and is discarded.
DiscardedWithoutKeyCollision ==
  /\ apc = "done"
  /\ Len(appDir) = 1
  /\ appDir[1].train.tree = <<Key(1, 1, 1), Key(2, 1, 1)>>
  /\ appDir[1].test.tree = <<>>
  /\ appDir[1].tree = <<Key(1, 1, 1)>>
  /\ Discarded(1)

DefiniteCopyDiscarded ==
  /\ apc = "done"
  /\ Len(appDir) = 1
  /\ appDir[1].train.tree = <<Key(1, 1, 1)>>
  /\ appDir[1].test.tree = <<Key(2, 1, 1)>>
  /\ appDir[1].tree = <<Key(1, 1, 1)>>
  /\ DefiniteCategories(1)
  /\ Discarded(1)
  /\ ~Output(1).exists

\* The positions of the reference entries of file f that are repeated, the
\* records of f that match a repeated entry, and what the output of f is
\* when the repeated entries play no part: written, each record with the
\* count of its matches in Train and in Test, which is 0 or 1.
Repeated(f, Count(_, _)) ==
  {j \in 1..Len(ReferenceKeys(f)) : Count(ReferenceKeys(f)[j], ReferenceKeys(f)) >= 2}

Untouched(f, Count(_, _)) ==
  /\ Repeated(f, Count) # {}
  /\ \A i \in 1..Len(appDir[f].tree), j \in Repeated(f, Count) :
       Count(appDir[f].tree[i], <<ReferenceKeys(f)[j]>>) = 0

WrittenWithout(f, Count(_, _)) ==
  /\ Written(f)
  /\ Output(f).exists /\ Output(f).closed
  /\ Len(Output(f).tree) = Len(appDir[f].tree)
  /\ \A i \in 1..Len(appDir[f].tree) :
       /\ SameKey(Output(f).tree[i], appDir[f].tree[i])
       /\ Output(f).tree[i].isTrain = Count(appDir[f].tree[i], appDir[f].train.tree)
       /\ Output(f).tree[i].isTest = Count(appDir[f].tree[i], appDir[f].test.tree)

\* C28 (as claimed): a key that occurs twice or more in the references of
\* a file none of whose records has that key has no effect: the file ends
\* written, every record with the flags it gets without the repeated
\* entries.
C28_UnmatchedDuplicateHarmless ==
  \A f \in Files :
    (Loaded(f) /\ Ended(f) /\ Untouched(f, KeyCount)) => WrittenWithout(f, KeyCount)

\* The same holds when no record of the file has the Event number of a
\* repeated entry.
UnmatchedEventHarmless ==
  \A f \in Files :
    (Loaded(f) /\ Ended(f) /\ Untouched(f, EventCount)) => WrittenWithout(f, EventCount)

\* A key is twice in Train; the file's only record has another Run and the
\* same Event number, and the file is discarded.
DiscardedByForeignKey ==
  /\ apc = "done"
  /\ Len(appDir) = 1
  /\ appDir[1].train.tree = <<Key(1, 1, 1), Key(1, 1, 1)>>
  /\ appDir[1].test.tree = <<>>
  /\ appDir[1].tree = <<Key(2, 1, 1)>>
  /\ Discarded(1)

\* A key is twice in Train and the file, whose records have other Event
\* numbers, is written.
WrittenBesideDuplicate ==
  \E f \in Files :
    /\ Written(f)
    /\ Untouched(f, EventCount)
    /\ Len(appDir[f].tree) > 0

(***************************************************************************)
(* Properties of split_train_test.py: determinism of a run                 *)
(***************************************************************************)

\* C29: with a seed given, the generator is seeded by the first step of a
\* run and by no other: every later step leaves it seeded from the same
\* seed and only adds to what has been drawn from it.  Two runs with the
\* same seed and factors over the same directory, entry for entry, give
\* every file the same Train index set.
C29_SeededOnce ==
  /\ [][gpc # "start" =>
          /\ rng'.seeded = rng.seeded
          /\ rng'.from = rng.from
          /\ IsPrefix(rng.drawn, rng'.drawn)]_vars
  /\ [][(gpc = "start" /\ args.seed # NoSeed) =>
          rng' = [seeded |-> TRUE, from |-> args.seed[1], drawn |-> <<>>]]_vars
  /\ [](\A r1 \in 1..Len(genRuns), r2 \in 1..Len(genRuns) :
          (SameSeedAndFactors(r1, r2) /\ genRuns[r1].dir = genRuns[r2].dir) =>
            \A f \in ClosedFiles(r1) \cap ClosedFiles(r2) :
              /\ Range(TrainDir[r1][f]) = Range(TrainDir[r2][f])
              /\ TrainDir[r1][f] = TrainDir[r2][f]
              /\ TestDir[r1][f] = TestDir[r2][f])

\* Two runs with the same seed over the same directory of two files have
\* ended, each file split into a Train and a Test part.
C29_Witness ==
  /\ gpc = "done"
  /\ run = 2
  /\ SameSeedAndFactors(1, 2)
  /\ genRuns[1].dir = genRuns[2].dir
  /\ Len(genRuns[1].dir) = 2
  /\ ClosedFiles(2) = {1, 2}
  /\ \A f \in {1, 2} : Len(TrainDir[2][f]) = 1 /\ Len(TestDir[2][f]) = 1
  /\ Len(rng.drawn) = 2

====
